---- MODULE Spec2Model ----
(***************************************************************************)
(* research-helper: the AI gateway (model fallback, chunked note           *)
(* generation, chat), the document chunker and the paper feature's         *)
(* history store, modelled from src/services/apiKeyStore.ts (which holds   *)
(* the key store followed by the current gateway source) and               *)
(* src/components/PaperFeature.tsx.                                        *)
(*                                                                         *)
(* Strings are kept run-length encoded: a string is a sequence of runs     *)
(* [c |-> character, n |-> repetitions], adjacent runs having different    *)
(* characters and n > 0.  Length, slice, trim and concatenation are exact  *)
(* on this encoding, so the program's own constants (9000, 300, 12000) are *)
(* used unscaled.                                                          *)
(***************************************************************************)
EXTENDS Integers, Sequences, FiniteSets, TLC

VARIABLES
  \* --- document chunker, called on its own ---
  ck_text, ck_size, ck_overlap, ck_pc, ck_chunks, ck_windows,
  \* --- PDF text extractor, called on its own ---
  pdf_file, pdf_pc, pdf_result,
  \* --- PdfViewer ---
  viewer,      \* the PdfPage components of the loaded document, by page number
  \* --- FormulaFeature ---
  formula,     \* the component's state (useState values of the last render)
  \* --- key store and gateway ---
  apiKey,      \* localStorage["siliconflow_api_key"], NullStr when absent
  keySets,     \* how many times the key was set
  ops,         \* the gateway operations started, by id
  \* --- PaperFeature ---
  paper,          \* the component's state (useState values of the last render)
  storedHistory,  \* localStorage["mathsnap_history"], parsed
  now,            \* the last value Date.now() returned
  handlers        \* the handler invocations, by the id of their operation

ckvars == <<ck_text, ck_size, ck_overlap, ck_pc, ck_chunks, ck_windows>>
pdfvars == <<pdf_file, pdf_pc, pdf_result>>
viewvars == <<viewer>>
ffvars == <<formula>>
gwvars == <<apiKey, keySets, ops>>
uivars == <<paper, storedHistory, now, handlers>>
vars == <<ckvars, pdfvars, viewvars, ffvars, gwvars, uivars>>

(***************************************************************************)
(* Strings                                                                 *)
(***************************************************************************)
Min(a, b) == IF a <= b THEN a ELSE b

Whitespace == {" ", "\n", "\t", "\r"}

Run(c, n) == [c |-> c, n |-> n]

RECURSIVE SLen(_)
SLen(s) == IF s = <<>> THEN 0 ELSE s[1].n + SLen(Tail(s))

\* s + t
SCat(s, t) ==
  IF s = <<>> THEN t
  ELSE IF t = <<>> THEN s
  ELSE IF s[Len(s)].c = t[1].c
       THEN SubSeq(s, 1, Len(s) - 1)
              \o <<Run(t[1].c, s[Len(s)].n + t[1].n)>> \o Tail(t)
       ELSE s \o t

RECURSIVE STake(_, _)
STake(s, k) ==
  IF k <= 0 \/ s = <<>> THEN <<>>
  ELSE IF s[1].n <= k THEN <<s[1]>> \o STake(Tail(s), k - s[1].n)
  ELSE <<Run(s[1].c, k)>>

RECURSIVE SDrop(_, _)
SDrop(s, k) ==
  IF k <= 0 \/ s = <<>> THEN s
  ELSE IF s[1].n <= k THEN SDrop(Tail(s), k - s[1].n)
  ELSE <<Run(s[1].c, s[1].n - k)>> \o Tail(s)

\* s.slice(a, b) for 0 <= a, 0 <= b (both clamped to the length)
SSlice(s, a, b) ==
  LET len == SLen(s)
      lo == Min(a, len)
      hi == Min(b, len)
  IN IF lo >= hi THEN <<>> ELSE STake(SDrop(s, lo), hi - lo)

\* the character at index i (0-based), for 0 <= i < length
RECURSIVE SCharAt(_, _)
SCharAt(s, i) == IF i < s[1].n THEN s[1].c ELSE SCharAt(Tail(s), i - s[1].n)

RECURSIVE STrimStart(_)
STrimStart(s) ==
  IF s = <<>> THEN s
  ELSE IF s[1].c \in Whitespace THEN STrimStart(Tail(s)) ELSE s

RECURSIVE STrimEnd(_)
STrimEnd(s) ==
  IF s = <<>> THEN s
  ELSE IF s[Len(s)].c \in Whitespace THEN STrimEnd(SubSeq(s, 1, Len(s) - 1)) ELSE s

\* s.trim()
STrim(s) == STrimEnd(STrimStart(s))

\* a string literal given character by character
RECURSIVE Lit(_)
Lit(q) == IF q = <<>> THEN <<>> ELSE SCat(<<Run(q[1], 1)>>, Lit(Tail(q)))

\* c repeated n times
Rep(c, n) == IF n = 0 THEN <<>> ELSE <<Run(c, n)>>

(***************************************************************************)
(* Document chunker: splitIntoChunks                                       *)
(***************************************************************************)
NOTE_CHUNK_SIZE == 9000
NOTE_CHUNK_OVERLAP == 300

\* The window start the loop continues with after a window ending at `end`.
NextStart_SkipsOverlap(end, overlap) == end + overlap
NextStart_NoOverlap(end, overlap) == end
NextStart_StepsBackTwice(end, overlap) == end - 2 * overlap

NextStart(end, overlap) == end - overlap

\* The while loop: the list of windows pushed, each with the loop's start and
\* end and the chunk text.slice(start, end).
RECURSIVE SplitLoop(_, _, _, _, _)
SplitLoop(text, size, overlap, start, chunks) ==
  IF ~(start < SLen(text)) THEN chunks
  ELSE LET end == Min(start + size, SLen(text))
           chunk == SSlice(text, start, end)
           pushed == Append(chunks, [start |-> start, end |-> end, chunk |-> chunk])
       IN IF end = SLen(text) THEN pushed
          ELSE SplitLoop(text, size, overlap, NextStart(end, overlap), pushed)

SplitWindows(text, size, overlap) ==
  IF SLen(text) <= size
  THEN <<[start |-> 0, end |-> SLen(text), chunk |-> text]>>
  ELSE SplitLoop(text, size, overlap, 0, <<>>)

splitIntoChunks(text, size, overlap) ==
  LET w == SplitWindows(text, size, overlap)
  IN [k \in 1..Len(w) |-> w[k].chunk]

\* the chunker when it is not called on its own
ChunkIdle ==
  /\ ck_text = <<>> /\ ck_size = 1 /\ ck_overlap = 0
  /\ ck_pc = "off" /\ ck_chunks = <<>> /\ ck_windows = <<>>

(***************************************************************************)
(* Key store                                                               *)
(***************************************************************************)
\* null / undefined where a string is expected: no string has a run of 0
NullStr == <<Run("null", 0)>>

Truthy(s) == s # NullStr /\ s # <<>>

getApiKey == apiKey

\* the stored value after setApiKey(key)
setApiKey_NoTrim(key) == IF Truthy(key) THEN key ELSE NullStr

setApiKey(key) == IF Truthy(key) THEN STrim(key) ELSE NullStr

hasApiKey == Truthy(getApiKey)

(***************************************************************************)
(* Gateway: callSiliconChat, callWithFallback                              *)
(***************************************************************************)
TEXT_MODEL == "deepseek-ai/DeepSeek-V3.2"
TEXT_FALLBACK_MODEL == "zai-org/GLM-4.6V"
VISION_MODEL == "Qwen/Qwen3-VL-32B-Instruct"
VISION_FALLBACK_MODEL == "zai-org/GLM-4.6V"

Err(name, message) == [name |-> name, message |-> message]
NoErr == Err("", "")
MissingKeyError == Err("MissingKeyError", "enter the SiliconFlow API key first")
FetchError == Err("TypeError", "Failed to fetch")
JsonError == Err("SyntaxError", "Unexpected token in JSON")
NoContentError == Err("Error", "the model returned no content")
EmptyTextError == Err("Error", "the model returned an empty text")
NotAStringError == Err("TypeError", "text.trim is not a function")
EmptyDocumentError == Err("Error", "the PDF text is empty, cannot answer")

\* What the provider answers to one fetch.
NoResp == [kind |-> "pending"]
NetErr == [kind |-> "neterr"]
BadJson == [kind |-> "badjson"]
Status(errorMessage, message, statusText) ==
  [kind |-> "http", ok |-> FALSE, errorMessage |-> errorMessage,
   message |-> message, statusText |-> statusText]
Ok(content) == [kind |-> "http", ok |-> TRUE, content |-> content]

Absent == [shape |-> "absent"]
StringContent(text) == [shape |-> "string", text |-> text]
ArrayContent(parts) == [shape |-> "array", parts |-> parts]
NumberContent == [shape |-> "number"]
Part(type, text) == [type |-> type, text |-> text]

Thrown(err) == [ok |-> FALSE, err |-> err, text |-> <<>>]
Returned(text) == [ok |-> TRUE, err |-> NoErr, text |-> text]

\* content.find((c) => c?.type === "text")
FindTextPart_LastText(parts) ==
  LET texts == {k \in 1..Len(parts) : parts[k].type = "text"}
  IN IF texts = {} THEN [type |-> "none", text |-> NullStr]
     ELSE parts[CHOOSE k \in texts : \A j \in texts : j <= k]

RECURSIVE FindTextPart(_)
FindTextPart(parts) ==
  IF parts = <<>> THEN Part("none", NullStr)
  ELSE IF parts[1].type = "text" THEN parts[1]
  ELSE FindTextPart(Tail(parts))

\* callSiliconChat from the settling of fetch to its return or throw
ReadResponse_ReturnsBlank(r) ==
  IF r.kind = "neterr" THEN Thrown(FetchError)
  ELSE IF r.kind = "badjson" THEN Thrown(JsonError)
  ELSE IF ~r.ok THEN Thrown(Err("Error", "SiliconFlow API request failed"))
  ELSE IF r.content.shape = "string" THEN Returned(r.content.text)
  ELSE IF r.content.shape = "array" /\ Truthy(FindTextPart(r.content.parts).text)
  THEN Returned(FindTextPart(r.content.parts).text)
  ELSE Returned(<<>>)

ReadResponse(r) ==
  IF r.kind = "neterr" THEN Thrown(FetchError)
  ELSE IF r.kind = "badjson" THEN Thrown(JsonError)
  ELSE IF ~r.ok
  THEN Thrown(Err("Error",
         IF r.errorMessage # "" THEN r.errorMessage
         ELSE IF r.message # "" THEN r.message
         ELSE IF r.statusText # "" THEN r.statusText
         ELSE "SiliconFlow API request failed"))
  ELSE LET content == r.content IN
    IF content.shape = "absent" \/ (content.shape = "string" /\ content.text = <<>>)
    THEN Thrown(NoContentError)
    ELSE IF content.shape = "number" THEN Thrown(NotAStringError)
    ELSE LET text == IF content.shape = "array"
                     THEN (IF Truthy(FindTextPart(content.parts).text)
                           THEN FindTextPart(content.parts).text ELSE <<>>)
                     ELSE content.text
         IN IF STrim(text) = <<>> THEN Thrown(EmptyTextError) ELSE Returned(text)

\* One gateway operation (an exported async function in flight).
IdleOp ==
  [kind |-> "none", pc |-> "idle", args |-> <<>>,
   chunks |-> <<>>, i |-> 0, partialNotes |-> <<>>,
   primaryModel |-> "", fallbackModel |-> "", messages |-> <<>>, options |-> <<>>,
   calls |-> <<>>, cwf |-> <<>>, caught |-> NoErr, result |-> <<>>, error |-> NoErr]

Settled(op) == op.pc \in {"resolved", "rejected"}
InFlight(op) == op.pc \in {"primary", "fallback"}

Resolve(op, value) == [op EXCEPT !.pc = "resolved", !.result = value]
Reject(op, err) == [op EXCEPT !.pc = "rejected", !.error = err]

\* ensureApiKey() returns the key read from the store (TRUE) or throws
ensureApiKey_NullOnly(key) == key # NullStr

ensureApiKey(key) == Truthy(key)

\* callSiliconChat(model, messages, options) up to its fetch: the call is
\* recorded with the key it read; it is sent only when a key is stored.
Invoke_CachedKey(op, attempt, key) ==
  LET used == IF op.calls = <<>> THEN key ELSE op.calls[1].key
  IN [op EXCEPT !.calls = Append(@,
       [attempt |-> attempt,
        model |-> IF attempt = "primary" THEN op.primaryModel ELSE op.fallbackModel,
        messages |-> op.messages, options |-> op.options,
        inv |-> Len(op.cwf) + 1,
        key |-> used, sent |-> ensureApiKey(key), response |-> NoResp])]

Invoke(op, attempt, key) ==
  [op EXCEPT !.calls = Append(@,
     [attempt |-> attempt,
      model |-> IF attempt = "primary" THEN op.primaryModel ELSE op.fallbackModel,
      messages |-> op.messages, options |-> op.options,
      inv |-> Len(op.cwf) + 1,
      key |-> key, sent |-> ensureApiKey(key), response |-> NoResp])]

\* callWithFallback throws: the operation's own await rethrows it
CwfThrows_KeepsPartialNotes(op, err) ==
  LET o == [op EXCEPT !.cwf = Append(@, Thrown(err))]
  IN IF op.kind = "note" /\ op.partialNotes # <<>>
     THEN [o EXCEPT !.pc = "resolved", !.result = op.partialNotes[1]]
     ELSE [o EXCEPT !.pc = "rejected", !.error = err]

CwfThrows(op, err) ==
  Reject([op EXCEPT !.cwf = Append(@, Thrown(err))], err)

\* The error callWithFallback throws when both attempts failed.
BothFailedError_Primary(primaryErr, fallbackErr) == primaryErr

BothFailedError(primaryErr, fallbackErr) == fallbackErr

\* callWithFallback's catch block: the primary attempt threw primaryErr.
OnPrimaryFailed_DefaultOptions(op, primaryErr, key) ==
  LET f == Invoke([op EXCEPT !.options = <<>>], "fallback", key)
  IN IF ensureApiKey(key) THEN [f EXCEPT !.pc = "fallback", !.caught = primaryErr]
     ELSE CwfThrows(f, BothFailedError(primaryErr, MissingKeyError))

OnPrimaryFailed(op, primaryErr, key) ==
  LET f == Invoke(op, "fallback", key)
  IN IF ensureApiKey(key) THEN [f EXCEPT !.pc = "fallback", !.caught = primaryErr]
     ELSE CwfThrows(f, BothFailedError(primaryErr, MissingKeyError))

\* callWithFallback(primaryModel, fallbackModel, messages, options) up to the
\* first fetch
BeginCall(op, primaryModel, fallbackModel, messages, options, key) ==
  LET o == [op EXCEPT !.primaryModel = primaryModel, !.fallbackModel = fallbackModel,
                      !.messages = messages, !.options = options, !.caught = NoErr]
      p == Invoke(o, "primary", key)
  IN IF ensureApiKey(key) THEN [p EXCEPT !.pc = "primary"]
     ELSE OnPrimaryFailed(p, MissingKeyError, key)

(***************************************************************************)
(* Gateway: the exported operations                                        *)
(***************************************************************************)
Digits == <<"0", "1", "2", "3", "4", "5", "6", "7", "8", "9">>

\* `${n}` for n >= 0
RECURSIVE NumStr(_)
NumStr(n) ==
  IF n < 10 THEN <<Run(Digits[n + 1], 1)>>
  ELSE SCat(NumStr(n \div 10), <<Run(Digits[(n % 10) + 1], 1)>>)

\* parts.join(sep)
RECURSIVE Join(_, _)
Join(parts, sep) ==
  IF parts = <<>> THEN <<>>
  ELSE IF Len(parts) = 1 THEN parts[1]
  ELSE SCat(SCat(parts[1], sep), Join(Tail(parts), sep))

\* title || "untitled paper"; an absent title is ""
TitleOr(title) == IF title = "" THEN "untitled-paper" ELSE title

\* "## <bu><fen> k\n": the two Chinese characters are one character each
PartHeading(k) ==
  SCat(SCat(Lit(<<"#", "#", " ", "bu", "fen", " ">>), NumStr(k)), Lit(<<"\n">>))

\* "# <jing><du><bi><ji>(<wan><zheng><wu><jie><duan>)\n"
NoteHeading ==
  Lit(<<"#", " ", "jing", "du", "bi", "ji", "(", "wan", "zheng", "wu", "jie",
        "duan", ")", "\n">>)

NoteMessages(title, i, chunks) ==
  [system |-> "note", title |-> TitleOr(title), part |-> i + 1,
   total |-> Len(chunks), text |-> chunks[i + 1]]

NoteOptions == [max_tokens |-> 5200]

\* analyzePaper(pdfText, title) up to its first fetch
analyzePaper(pdfText, title, key) ==
  LET chunks == splitIntoChunks(pdfText, NOTE_CHUNK_SIZE, NOTE_CHUNK_OVERLAP)
      op == [IdleOp EXCEPT !.kind = "note",
                           !.args = [pdfText |-> pdfText, title |-> title],
                           !.chunks = chunks]
  IN BeginCall(op, TEXT_MODEL, TEXT_FALLBACK_MODEL,
               NoteMessages(title, 0, chunks), NoteOptions, key)

\* analyzePaper after callWithFallback returned `note` for chunk i: the push,
\* the loop's next iteration or the final join
NoteReturned_NextBeforePush(op, note, key) ==
  LET pushed == [op EXCEPT !.i = @ + 1]
  IN IF pushed.i < Len(op.chunks)
     THEN BeginCall(pushed, TEXT_MODEL, TEXT_FALLBACK_MODEL,
                    NoteMessages(op.args.title, pushed.i, op.chunks), NoteOptions, key)
     ELSE Resolve(pushed, SCat(NoteHeading, Join(pushed.partialNotes, Lit(<<"\n", "\n">>))))

NoteReturned_Prepends(op, note, key) ==
  LET pushed == [op EXCEPT
                   !.partialNotes = <<SCat(PartHeading(op.i + 1), STrim(note))>> \o @,
                   !.i = @ + 1]
  IN IF pushed.i < Len(op.chunks)
     THEN BeginCall(pushed, TEXT_MODEL, TEXT_FALLBACK_MODEL,
                    NoteMessages(op.args.title, pushed.i, op.chunks), NoteOptions, key)
     ELSE Resolve(pushed, SCat(NoteHeading, Join(pushed.partialNotes, Lit(<<"\n", "\n">>))))

NoteReturned(op, note, key) ==
  LET pushed == [op EXCEPT
                   !.partialNotes = Append(@, SCat(PartHeading(op.i + 1), STrim(note))),
                   !.i = @ + 1]
  IN IF pushed.i < Len(op.chunks)
     THEN BeginCall(pushed, TEXT_MODEL, TEXT_FALLBACK_MODEL,
                    NoteMessages(op.args.title, pushed.i, op.chunks), NoteOptions, key)
     ELSE Resolve(pushed, SCat(NoteHeading, Join(pushed.partialNotes, Lit(<<"\n", "\n">>))))

\* An image argument: a data URL (prefix = its mime type) or bare base64.
Image(prefix, payload) == [prefix |-> prefix, payload |-> payload]

MatchedMimes == {"image/png", "image/jpeg", "application/pdf"}

getMimeType(base64) ==
  IF base64.prefix \in MatchedMimes THEN base64.prefix ELSE "image/png"

cleanBase64(base64) ==
  IF base64.prefix \in MatchedMimes THEN Image("", base64.payload) ELSE base64

ensureDataUrl(base64, mime) ==
  IF base64.prefix # "" THEN base64 ELSE Image(mime, cleanBase64(base64).payload)

ChartMessages(base64Image) ==
  [system |-> "chart", imageUrl |-> ensureDataUrl(base64Image, getMimeType(base64Image))]

ChartOptions == [max_tokens |-> 1200]

\* analyzeChart(base64Image) up to its first fetch
analyzeChart(base64Image, key) ==
  BeginCall([IdleOp EXCEPT !.kind = "chart", !.args = [base64Image |-> base64Image]],
            VISION_MODEL, VISION_FALLBACK_MODEL,
            ChartMessages(base64Image), ChartOptions, key)

CHAT_TEXT_LIMIT == 12000

\* "\n\n[<nei><rong><jie><duan>,<hou><xu><lue>]"
TruncationMarker ==
  Lit(<<"\n", "\n", "[", "nei", "rong", "jie", "duan", ",", "hou", "xu", "lue", "]">>)

Truncate_AtCeiling(paperText) ==
  IF SLen(paperText) >= CHAT_TEXT_LIMIT
  THEN SCat(SSlice(paperText, 0, CHAT_TEXT_LIMIT), TruncationMarker)
  ELSE paperText

Truncate(paperText) ==
  IF SLen(paperText) > CHAT_TEXT_LIMIT
  THEN SCat(SSlice(paperText, 0, CHAT_TEXT_LIMIT), TruncationMarker)
  ELSE paperText

\* history.map(m => `${role}: ${m.text}`).join("\n"), kept as its lines
HistoryText(history) ==
  [k \in 1..Len(history) |->
     [speaker |-> IF history[k].role = "user" THEN "user" ELSE "assistant",
      text |-> history[k].text]]

ChatPrompt(paperText, history, newMessage, title) ==
  [system |-> "chat", title |-> TitleOr(title), text |-> Truncate(paperText),
   historyText |-> HistoryText(history), question |-> newMessage]

ChatOptions == [max_tokens |-> 800]

\* chatWithPaper's guard: !paperText?.trim()
EmptyDocument_OnlyEmpty(paperText) == paperText = NullStr \/ paperText = <<>>

EmptyDocument(paperText) == paperText = NullStr \/ STrim(paperText) = <<>>

\* chatWithPaper(paperText, history, newMessage, title) up to its first fetch
chatWithPaper(paperText, history, newMessage, title, key) ==
  LET op == [IdleOp EXCEPT !.kind = "chat",
               !.args = [paperText |-> paperText, history |-> history,
                         newMessage |-> newMessage, title |-> title]]
  IN IF EmptyDocument(paperText) THEN Reject(op, EmptyDocumentError)
     ELSE BeginCall(op, TEXT_MODEL, TEXT_FALLBACK_MODEL,
                    ChatPrompt(paperText, history, newMessage, title), ChatOptions, key)

(***************************************************************************)
(* Gateway: analyzeImage, parseFormulaJson                                 *)
(***************************************************************************)
\* the characters of a string, one by one
RECURSIVE Chars(_)
Chars(s) == IF s = <<>> THEN <<>> ELSE [k \in 1..s[1].n |-> s[1].c] \o Chars(Tail(s))

\* JSON values: t is the type; s the text of a string; fields the members of
\* an object in the order written
JsonValue(t, s, fields) == [t |-> t, s |-> s, fields |-> fields]
Undefined == JsonValue("undefined", <<>>, <<>>)
JsonNull == JsonValue("null", <<>>, <<>>)
JsonString(s) == JsonValue("string", s, <<>>)
JsonObject(fields) == JsonValue("object", <<>>, fields)

JsonWs == {" ", "\n", "\t", "\r"}
JsonDigits == {"0", "1", "2", "3", "4", "5", "6", "7", "8", "9"}

SyntaxFail == [ok |-> FALSE, v |-> Undefined, pos |-> 0]
Parsed(v, pos) == [ok |-> TRUE, v |-> v, pos |-> pos]

RECURSIVE SkipWs(_, _)
SkipWs(cs, i) == IF i <= Len(cs) /\ cs[i] \in JsonWs THEN SkipWs(cs, i + 1) ELSE i

RECURSIVE SkipDigits(_, _)
SkipDigits(cs, i) == IF i <= Len(cs) /\ cs[i] \in JsonDigits THEN SkipDigits(cs, i + 1) ELSE i

\* the characters of word stand at position i
Match(cs, i, word) ==
  /\ i + Len(word) - 1 <= Len(cs)
  /\ \A k \in 1..Len(word) : cs[i + k - 1] = word[k]

\* a string from the character after its opening quote
RECURSIVE ParseStringBody(_, _, _)
ParseStringBody(cs, i, acc) ==
  IF i > Len(cs) THEN SyntaxFail
  ELSE IF cs[i] = "\"" THEN Parsed(JsonString(Lit(acc)), i + 1)
  ELSE IF cs[i] \in {"\n", "\t", "\r"} THEN SyntaxFail
  ELSE IF cs[i] = "\\"
  THEN (IF i + 1 > Len(cs) THEN SyntaxFail
        ELSE IF cs[i + 1] = "n" THEN ParseStringBody(cs, i + 2, Append(acc, "\n"))
        ELSE IF cs[i + 1] = "t" THEN ParseStringBody(cs, i + 2, Append(acc, "\t"))
        ELSE IF cs[i + 1] \in {"\"", "\\", "/"}
        THEN ParseStringBody(cs, i + 2, Append(acc, cs[i + 1]))
        ELSE SyntaxFail)
  ELSE ParseStringBody(cs, i + 1, Append(acc, cs[i]))

\* a number: an optional minus and digits (fractions and exponents left out)
ParseNumber(cs, i) ==
  LET d == IF cs[i] = "-" THEN i + 1 ELSE i
      j == SkipDigits(cs, d)
  IN IF j = d THEN SyntaxFail ELSE Parsed(JsonValue("number", <<>>, <<>>), j)

RECURSIVE ParseValue(_, _)
RECURSIVE ParseMembers(_, _, _)
RECURSIVE ParseElements(_, _)

\* the members of an object from the opening quote of a key
ParseMembers(cs, i, acc) ==
  IF i > Len(cs) \/ cs[i] # "\"" THEN SyntaxFail
  ELSE LET k == ParseStringBody(cs, i + 1, <<>>)
       IN IF ~k.ok THEN SyntaxFail
          ELSE LET c == SkipWs(cs, k.pos)
               IN IF c > Len(cs) \/ cs[c] # ":" THEN SyntaxFail
                  ELSE LET v == ParseValue(cs, c + 1)
                       IN IF ~v.ok THEN SyntaxFail
                          ELSE LET e == SkipWs(cs, v.pos)
                                   fields == Append(acc, [key |-> k.v.s, value |-> v.v])
                               IN IF e > Len(cs) THEN SyntaxFail
                                  ELSE IF cs[e] = "}" THEN Parsed(JsonObject(fields), e + 1)
                                  ELSE IF cs[e] = ","
                                  THEN ParseMembers(cs, SkipWs(cs, e + 1), fields)
                                  ELSE SyntaxFail

\* the elements of an array from its first element
ParseElements(cs, i) ==
  LET v == ParseValue(cs, i)
  IN IF ~v.ok THEN SyntaxFail
     ELSE LET e == SkipWs(cs, v.pos)
          IN IF e > Len(cs) THEN SyntaxFail
             ELSE IF cs[e] = "]" THEN Parsed(JsonValue("array", <<>>, <<>>), e + 1)
             ELSE IF cs[e] = "," THEN ParseElements(cs, e + 1)
             ELSE SyntaxFail

ParseValue(cs, i0) ==
  LET i == SkipWs(cs, i0)
  IN IF i > Len(cs) THEN SyntaxFail
     ELSE IF cs[i] = "\"" THEN ParseStringBody(cs, i + 1, <<>>)
     ELSE IF cs[i] = "{"
     THEN (LET j == SkipWs(cs, i + 1)
           IN IF j <= Len(cs) /\ cs[j] = "}" THEN Parsed(JsonObject(<<>>), j + 1)
              ELSE ParseMembers(cs, j, <<>>))
     ELSE IF cs[i] = "["
     THEN (LET j == SkipWs(cs, i + 1)
           IN IF j <= Len(cs) /\ cs[j] = "]"
              THEN Parsed(JsonValue("array", <<>>, <<>>), j + 1)
              ELSE ParseElements(cs, j))
     ELSE IF cs[i] \in JsonDigits \cup {"-"} THEN ParseNumber(cs, i)
     ELSE IF Match(cs, i, <<"n", "u", "l", "l">>) THEN Parsed(JsonNull, i + 4)
     ELSE IF Match(cs, i, <<"t", "r", "u", "e">>)
     THEN Parsed(JsonValue("boolean", <<>>, <<>>), i + 4)
     ELSE IF Match(cs, i, <<"f", "a", "l", "s", "e">>)
     THEN Parsed(JsonValue("boolean", <<>>, <<>>), i + 5)
     ELSE SyntaxFail

\* JSON.parse(text): ok = FALSE when it throws a SyntaxError
JsonParse(text) ==
  LET cs == Chars(text)
      v == ParseValue(cs, 1)
  IN IF v.ok /\ SkipWs(cs, v.pos) > Len(cs) THEN v ELSE SyntaxFail

\* v[name] for v neither null nor undefined: of an object its last member of
\* that name, of anything else undefined
RECURSIVE LastField(_, _)
LastField(fields, key) ==
  IF fields = <<>> THEN Undefined
  ELSE IF fields[Len(fields)].key = key THEN fields[Len(fields)].value
  ELSE LastField(SubSeq(fields, 1, Len(fields) - 1), key)

Prop(v, key) == IF v.t = "object" THEN LastField(v.fields, key) ELSE Undefined

Nullish(v) == v.t \in {"undefined", "null"}

\* x?.trim?.() || "": threw = TRUE when x.trim is there and is no function
TrimOrEmpty_NoTrim(x) ==
  IF x.t = "string" THEN [threw |-> FALSE, s |-> x.s] ELSE [threw |-> FALSE, s |-> <<>>]

TrimOrEmpty(x) ==
  IF Nullish(x) THEN [threw |-> FALSE, s |-> <<>>]
  ELSE IF x.t = "string" THEN [threw |-> FALSE, s |-> STrim(x.s)]
  ELSE IF Nullish(Prop(x, Lit(<<"t", "r", "i", "m">>))) THEN [threw |-> FALSE, s |-> <<>>]
  ELSE [threw |-> TRUE, s |-> <<>>]

MalformedResultError == Err("Error", "the AI returned a malformed format, retry")

FormulaResponse(latex, explanation) == [latex |-> latex, explanation |-> explanation]
NoFormula == FormulaResponse(NullStr, NullStr)

LatexKey == Lit(<<"l", "a", "t", "e", "x">>)
ExplanationKey == Lit(<<"e", "x", "p", "l", "a", "n", "a", "t", "i", "o", "n">>)

\* parseFormulaJson(text)
parseFormulaJson(text) ==
  LET parsed == JsonParse(text)
  IN IF ~parsed.ok \/ Nullish(parsed.v)
     THEN [ok |-> FALSE, err |-> MalformedResultError, value |-> NoFormula]
     ELSE LET latex == TrimOrEmpty(Prop(parsed.v, LatexKey))
              explanation == TrimOrEmpty(Prop(parsed.v, ExplanationKey))
          IN IF latex.threw \/ explanation.threw
             THEN [ok |-> FALSE, err |-> MalformedResultError, value |-> NoFormula]
             ELSE [ok |-> TRUE, err |-> NoErr,
                   value |-> FormulaResponse(latex.s, explanation.s)]

FormulaMessages(base64Image) ==
  [system |-> "formula", imageUrl |-> ensureDataUrl(base64Image, getMimeType(base64Image))]

FormulaOptions == [response_format |-> "json_object"]

\* analyzeImage(base64Image) up to its first fetch
analyzeImage(base64Image, key) ==
  BeginCall([IdleOp EXCEPT !.kind = "formula", !.args = [base64Image |-> base64Image]],
            VISION_MODEL, VISION_FALLBACK_MODEL,
            FormulaMessages(base64Image), FormulaOptions, key)

\* analyzeImage after callWithFallback returned text
FormulaReturned_RetriesFallback(op, text) ==
  LET f == parseFormulaJson(text)
  IN IF f.ok THEN Resolve(op, f.value)
     ELSE IF op.pc = "primary"
     THEN OnPrimaryFailed(op, f.err, op.calls[Len(op.calls)].key)
     ELSE Reject(op, f.err)

FormulaReturned(op, text) ==
  LET f == parseFormulaJson(text)
  IN IF f.ok THEN Resolve(op, f.value) ELSE Reject(op, f.err)

\* callWithFallback returned `text` to the operation awaiting it
CwfReturns(op, text, key) ==
  LET o == [op EXCEPT !.cwf = Append(@, Returned(text))]
  IN IF op.kind = "note" THEN NoteReturned(o, text, key)
     ELSE IF op.kind = "formula" THEN FormulaReturned(o, text)
     ELSE Resolve(o, text)

\* The fetch of the operation's call in flight settles with r; the operation
\* runs on to its next fetch or to its end.
Receive_FallbackResultDropped(op, r, key) ==
  LET out == ReadResponse(r)
      o == [op EXCEPT !.calls[Len(op.calls)].response = r]
  IN IF out.ok /\ op.pc = "primary" THEN CwfReturns(o, out.text, key)
     ELSE IF op.pc = "primary" THEN OnPrimaryFailed(o, out.err, key)
     ELSE CwfThrows(o, op.caught)

Receive(op, r, key) ==
  LET out == ReadResponse(r)
      o == [op EXCEPT !.calls[Len(op.calls)].response = r]
  IN IF out.ok THEN CwfReturns(o, out.text, key)
     ELSE IF op.pc = "primary" THEN OnPrimaryFailed(o, out.err, key)
     ELSE CwfThrows(o, BothFailedError(op.caught, out.err))

(***************************************************************************)
(* The gateway's operations called on their own, one operation per run.    *)
(***************************************************************************)
(* PDF text extractor                                                      *)
(***************************************************************************)
\* A PDF file as the browser hands it over: its data URL and what pdf.js
\* makes of the bytes (ok = FALSE: the document cannot be opened).
\* unreadable: the page whose getPage or getTextContent rejects (0: none)
PdfFile(name, url, ok, pages) ==
  [name |-> name, url |-> url, ok |-> ok, pages |-> pages, unreadable |-> 0]

Unreadable(file, pageNum) == [file EXCEPT !.unreadable = pageNum]

PdfParseError == Err("Error", "Invalid PDF structure")
PageReadError == Err("Error", "Page read failed")

\* "\n\n[Page k]\n" + items.join(" ")
PageBlock(pageNum, items) ==
  SCat(SCat(SCat(Lit(<<"\n", "\n", "[", "P", "a", "g", "e", " ">>), NumStr(pageNum)),
            Lit(<<"]", "\n">>)),
       Join(items, Lit(<<" ">>)))

RECURSIVE FullText(_, _)
FullText(pages, pageNum) ==
  IF pageNum > Len(pages) THEN <<>>
  ELSE SCat(PageBlock(pageNum, pages[pageNum]), FullText(pages, pageNum + 1))

\* extractPdfText(base64), the file being the one with this data URL
extractPdfText_PartialText(file) ==
  IF ~file.ok THEN [ok |-> FALSE, err |-> PdfParseError, text |-> <<>>, pages |-> 0]
  ELSE IF file.unreadable \in 1..Len(file.pages)
  THEN [ok |-> TRUE, err |-> NoErr,
        text |-> STrim(FullText(SubSeq(file.pages, 1, file.unreadable - 1), 1)),
        pages |-> Len(file.pages)]
  ELSE [ok |-> TRUE, err |-> NoErr, text |-> STrim(FullText(file.pages, 1)),
        pages |-> Len(file.pages)]

extractPdfText(file) ==
  IF ~file.ok THEN [ok |-> FALSE, err |-> PdfParseError, text |-> <<>>, pages |-> 0]
  ELSE IF file.unreadable \in 1..Len(file.pages)
  THEN [ok |-> FALSE, err |-> PageReadError, text |-> <<>>, pages |-> 0]
  ELSE [ok |-> TRUE, err |-> NoErr, text |-> STrim(FullText(file.pages, 1)),
        pages |-> Len(file.pages)]

NoExtraction == [ok |-> FALSE, err |-> NoErr, text |-> <<>>, pages |-> 0]

PdfIdle ==
  /\ pdf_file = PdfFile("", <<>>, FALSE, <<>>) /\ pdf_pc = "idle"
  /\ pdf_result = NoExtraction

(***************************************************************************)
(* PaperFeature: component state, history store, handlers                  *)
(***************************************************************************)
\* history.filter(h => h.id !== id)
RemoveId(list, id) == SelectSeq(list, LAMBDA h : h.id # id)

\* saveToHistory's new list, `seen` being the history of the render that
\* created the handler
saveToHistory_NoFilter(seen, item) == <<item>> \o seen

saveToHistory(seen, item) == <<item>> \o RemoveId(seen, item.id)

\* Date.now().toString() and `chat-${fileName}-${Date.now()}`
PlainId(t) == [prefix |-> "", name |-> "", time |-> t]
ChatId(name, t) == [prefix |-> "chat", name |-> IF name = "" THEN "null" ELSE name, time |-> t]

HistoryItem(id, type, name, t, content, sourcePreview) ==
  [id |-> id, type |-> type, fileName |-> name, timestamp |-> t,
   content |-> content, sourcePreview |-> sourcePreview]

NoImage == Image("", "")

SubTabs == {"read", "qa", "chart", "history"}

InitialPaper ==
  [subTab |-> "read", pdfFile |-> NullStr, fileName |-> "", isAnalyzing |-> FALSE, readResult |-> <<>>,
   chartImage |-> NoImage, chartResult |-> <<>>, isChartAnalyzing |-> FALSE,
   chatMessages |-> <<>>, isChatting |-> FALSE, error |-> "", history |-> <<>>]

\* a handler invocation: what its closure holds
NoHandler ==
  [kind |-> "none", stage |-> "idle", outcome |-> "", file |-> PdfFile("", <<>>, FALSE, <<>>),
   base64 |-> NoImage, name |-> "", history |-> <<>>, fileName |-> "",
   chatMessages |-> <<>>, updatedMessages |-> <<>>, chartResult |-> <<>>,
   saved |-> <<>>]

\* the upload screen is replaced by the tabs
MainView(p) ==
  Truthy(p.pdfFile) \/ p.subTab = "history" \/ p.readResult # <<>> \/ p.chatMessages # <<>>

\* What a handler's continuation leaves: the component state, the persisted
\* blob and the item it passed to saveToHistory (none: <<>>).
Persist(p, seen, item, stored) ==
  LET newHistory == saveToHistory(seen, item)
  IN [paper |-> [p EXCEPT !.history = newHistory], stored |-> newHistory,
      saved |-> <<item>>]
Keep(p, stored) == [paper |-> p, stored |-> stored, saved |-> <<>>]

\* handlePdfSelect after analyzePaper resolved with result, at time t
PdfDone(p, stored, h, result, t) ==
  Persist([p EXCEPT !.readResult = result, !.isAnalyzing = FALSE], h.history,
          HistoryItem(PlainId(t), "note", h.name, t, result, NoImage), stored)

\* handlePdfSelect's catch and finally
PdfFailed_SavesError(p, stored, h, err, t) ==
  Persist([p EXCEPT !.error = err.message, !.isAnalyzing = FALSE], h.history,
          HistoryItem(PlainId(t), "note", h.name, t, <<>>, NoImage), stored)

PdfFailed(p, stored, h, err, t) ==
  Keep([p EXCEPT !.error = err.message, !.isAnalyzing = FALSE], stored)

\* handleChartSelect after analyzeChart resolved
ChartDone(p, stored, h, result, t) ==
  Persist([p EXCEPT !.chartResult = result, !.isChartAnalyzing = FALSE], h.history,
          HistoryItem(PlainId(t), "chart",
                      IF h.fileName = "" THEN "chart-analysis" ELSE h.fileName,
                      t, result, h.base64),
          stored)

\* handleChartSelect's catch and finally
ChartFailed(p, stored, h, err, t) ==
  Keep([p EXCEPT !.error = err.message, !.isChartAnalyzing = FALSE], stored)

ChatMessage(role, text, t) == [role |-> role, text |-> text, timestamp |-> t]

\* handleSendMessage after chatWithPaper resolved with answer
ChatDone(p, stored, h, answer, t) ==
  LET finalMessages == Append(h.updatedMessages, ChatMessage("model", answer, t))
  IN Persist([p EXCEPT !.chatMessages = finalMessages, !.isChatting = FALSE],
             h.history,
             HistoryItem(ChatId(h.fileName, t), "chat",
                         IF h.fileName = "" THEN "chat-record" ELSE h.fileName,
                         t, finalMessages, NoImage),
             stored)

ApologyText == Lit(<<"s", "o", "r", "r", "y">>)

\* handleSendMessage's catch and finally
ChatFailed(p, stored, h, err, t) ==
  Keep([p EXCEPT !.chatMessages = Append(@, ChatMessage("model", ApologyText, t)),
                 !.isChatting = FALSE], stored)

\* the handler's continuation once its gateway operation has settled
Settle(p, stored, h, op, t) ==
  IF h.kind = "pdf"
  THEN (IF op.pc = "resolved" THEN PdfDone(p, stored, h, op.result, t)
        ELSE PdfFailed(p, stored, h, op.error, t))
  ELSE IF h.kind = "chart"
  THEN (IF op.pc = "resolved" THEN ChartDone(p, stored, h, op.result, t)
        ELSE ChartFailed(p, stored, h, op.error, t))
  ELSE (IF op.pc = "resolved" THEN ChatDone(p, stored, h, op.result, t)
        ELSE ChatFailed(p, stored, h, op.error, t))

(***************************************************************************)
(* PdfViewer: the PdfPage component                                        *)
(***************************************************************************)
\* A PdfPage after its first commit: mounted, its container observed, not
\* visible; task is the position of render(), started counts the calls of
\* render(), rasterized those of page.render() and rerenders the renders its
\* parent caused.
MountedPage ==
  [mounted |-> TRUE, observing |-> TRUE, isVisible |-> FALSE, rerenders |-> 0,
   task |-> "none", started |-> 0, rasterized |-> 0]

\* the body of the second effect: the guard, then render() up to its await
RenderEffect(pg) ==
  IF ~pg.isVisible \/ ~pg.mounted THEN pg
  ELSE [pg EXCEPT !.task = "loading", !.started = @ + 1]

\* a commit: the second effect runs when one of [isVisible, pdfDoc, pageNum]
\* differs from the previous render's (the document and the page number do
\* not change here)
Commit_NoDeps(pg, prev) == RenderEffect(pg)

Commit(pg, prev) ==
  IF pg.isVisible # prev.isVisible THEN RenderEffect(pg) ELSE pg

ViewerIdle == viewer = <<>>

(***************************************************************************)
(* FormulaFeature: component state                                         *)
(***************************************************************************)
InitialFormula ==
  [selectedImage |-> NoImage, result |-> <<>>, error |-> "", isAnalyzing |-> FALSE]

FormulaIdle == formula = InitialFormula

(***************************************************************************)
MaxOps == 3
MaxKeySets == 1
MaxChunks == 3

OpIds == 1..MaxOps

ChunkStep == NOTE_CHUNK_SIZE - NOTE_CHUNK_OVERLAP

\* a text of n full windows: NOTE_CHUNK_SIZE + (n - 1) * ChunkStep characters
RECURSIVE PaperText(_)
PaperText(n) ==
  IF n = 0 THEN Rep("z", NOTE_CHUNK_OVERLAP)
  ELSE SCat(Rep(IF n % 2 = 1 THEN "a" ELSE "b", ChunkStep), PaperText(n - 1))

PdfTexts ==
  {<<>>, Lit(<<" ", "x", " ">>)}
    \cup {PaperText(n) : n \in 1..MaxChunks}
    \cup {SCat(PaperText(n), Lit(<<"y">>)) : n \in 1..(MaxChunks - 1)}

Titles == {"", "paper.pdf"}

InitKeys == {NullStr, <<>>, Lit(<<"k">>)}
KeyInputs == {<<>>, Lit(<<" ">>), Lit(<<" ", "j", " ">>)}

Images == {Image("image/png", "chart1"), Image("", "chart2")}

ChatTexts ==
  {NullStr, <<>>, Lit(<<" ", "\n">>), Lit(<<"d", "o", "c">>),
   Rep("a", CHAT_TEXT_LIMIT), SCat(Rep("a", CHAT_TEXT_LIMIT), Lit(<<"b">>))}

ChatHistories ==
  {<<>>, <<[role |-> "user", text |-> Lit(<<"q", "1">>), timestamp |-> 1],
          [role |-> "model", text |-> Lit(<<"a", "1">>), timestamp |-> 2]>>}

Questions == {Lit(<<"q", "2">>)}

AllResponses ==
  {NetErr, BadJson,
   Status("quota exceeded", "", "Too Many Requests"),
   Status("", "bad request", ""),
   Status("", "", "Bad Gateway"),
   Status("", "", ""),
   Ok(Absent), Ok(NumberContent),
   Ok(StringContent(<<>>)),
   Ok(StringContent(Lit(<<" ", "\n">>))),
   Ok(StringContent(Lit(<<" ", "m", " ">>))),
   Ok(StringContent(Lit(<<"n">>))),
   Ok(ArrayContent(<<>>)),
   Ok(ArrayContent(<<Part("image_url", NullStr)>>)),
   Ok(ArrayContent(<<Part("text", NullStr), Part("text", Lit(<<"r">>))>>)),
   Ok(ArrayContent(<<Part("image_url", NullStr), Part("text", Lit(<<"p">>)),
                     Part("text", Lit(<<"q">>))>>))}

NoteResponses ==
  {NetErr,
   Status("quota exceeded", "", "Too Many Requests"),
   Ok(StringContent(Lit(<<" ", "\n">>))),
   Ok(StringContent(Lit(<<" ", "m", " ">>))),
   Ok(ArrayContent(<<Part("image_url", NullStr), Part("text", Lit(<<"p">>))>>))}

\* JSON texts as a model writes them
Quoted(s) == SCat(SCat(Lit(<<"\"">>), s), Lit(<<"\"">>))
Member(key, value) == SCat(SCat(Quoted(key), Lit(<<":">>)), value)
Object1(m) == SCat(SCat(Lit(<<"{">>), m), Lit(<<"}">>))
Object2(m1, m2) == Object1(SCat(SCat(m1, Lit(<<",", " ">>)), m2))

WellFormedTexts ==
  {Object2(Member(LatexKey, Quoted(Lit(<<" ", "$", "$", "x", "$", "$">>))),
           Member(ExplanationKey, Quoted(Lit(<<"d", "e", "s", "c", "\\", "n">>)))),
   SCat(Lit(<<"\n", " ">>),
        SCat(Object2(Member(ExplanationKey, Quoted(Lit(<<"d">>))),
                     Member(LatexKey, Quoted(Lit(<<"y">>)))), Lit(<<"\n">>))),
   Object2(Member(LatexKey, Quoted(Lit(<<" ">>))),
           Member(ExplanationKey, Quoted(<<>>)))}

UnparsableTexts ==
  {Lit(<<"s", "u", "r", "e", ":", " ", "x">>),
   SCat(Lit(<<"j", "s", "o", "n", ":", " ">>), Object1(Member(LatexKey, Quoted(Lit(<<"x">>))))),
   SCat(Lit(<<"{">>), Member(LatexKey, Quoted(Lit(<<"x">>))))}

IncompleteTexts ==
  {Object1(Member(LatexKey, Quoted(Lit(<<"x">>)))),
   Object1(Member(ExplanationKey, Quoted(Lit(<<"d">>)))),
   Object2(Member(LatexKey, Lit(<<"5">>)), Member(ExplanationKey, Quoted(Lit(<<"d">>)))),
   Object2(Member(LatexKey, Object1(Member(Lit(<<"t", "r", "i", "m">>), Lit(<<"1">>)))),
           Member(ExplanationKey, Quoted(Lit(<<"d">>)))),
   Lit(<<"{", "}">>), Lit(<<"7">>), Lit(<<"[", "1", ",", "2", "]">>),
   Lit(<<"n", "u", "l", "l">>), Quoted(Lit(<<"x">>))}

FormulaTexts == WellFormedTexts \cup UnparsableTexts \cup IncompleteTexts

FormulaResponses ==
  {NetErr, Status("", "", "Bad Gateway"), Ok(StringContent(Lit(<<" ">>)))}
    \cup {Ok(StringContent(text)) : text \in FormulaTexts}
    \cup {Ok(ArrayContent(<<Part("text", text)>>)) : text \in WellFormedTexts}

ResponsesTo(op) ==
  IF op.kind = "note" THEN NoteResponses
  ELSE IF op.kind = "formula" THEN FormulaResponses
  ELSE AllResponses

\* the handler has returned: how it ended, the history it had captured and
\* the item it saved
Finish(h, op, saved) ==
  [NoHandler EXCEPT !.kind = h.kind, !.stage = "done", !.history = h.history,
                    !.outcome = IF op.pc = "resolved" THEN "ok" ELSE "failed",
                    !.saved = saved]

\* a settled operation whose handler has returned: only its outcome is kept
Forget(op) ==
  IF Settled(op)
  THEN [IdleOp EXCEPT !.kind = op.kind, !.pc = op.pc, !.result = op.result,
                      !.error = op.error]
  ELSE op

UIIdle ==
  /\ paper = InitialPaper /\ storedHistory = <<>> /\ now = 0
  /\ handlers = [id \in OpIds |-> NoHandler]

GatewayIdle ==
  /\ apiKey = NullStr /\ keySets = 0 /\ ops = [id \in OpIds |-> IdleOp]

GatewayInit ==
  /\ ChunkIdle
  /\ PdfIdle
  /\ ViewerIdle
  /\ FormulaIdle
  /\ apiKey \in InitKeys
  /\ keySets = 0
  /\ ops = [id \in OpIds |-> IdleOp]
  /\ UIIdle

\* ApiKeyBar's save: setApiKey(key)
SetApiKey(key) ==
  /\ keySets < MaxKeySets
  /\ keySets' = keySets + 1
  /\ apiKey' = setApiKey(key)
  /\ UNCHANGED <<ckvars, pdfvars, viewvars, ffvars, ops, uivars>>

CallAnalyzeImage(id, base64Image) ==
  /\ ops[id].pc = "idle"
  /\ ops' = [ops EXCEPT ![id] = analyzeImage(base64Image, getApiKey)]
  /\ UNCHANGED <<ckvars, pdfvars, viewvars, ffvars, apiKey, keySets, uivars>>

CallAnalyzePaper(id, pdfText, title) ==
  /\ ops[id].pc = "idle"
  /\ ops' = [ops EXCEPT ![id] = analyzePaper(pdfText, title, getApiKey)]
  /\ UNCHANGED <<ckvars, pdfvars, viewvars, ffvars, apiKey, keySets, uivars>>

CallAnalyzeChart(id, base64Image) ==
  /\ ops[id].pc = "idle"
  /\ ops' = [ops EXCEPT ![id] = analyzeChart(base64Image, getApiKey)]
  /\ UNCHANGED <<ckvars, pdfvars, viewvars, ffvars, apiKey, keySets, uivars>>

CallChatWithPaper(id, paperText, history, newMessage, title) ==
  /\ ops[id].pc = "idle"
  /\ ops' = [ops EXCEPT ![id] =
               chatWithPaper(paperText, history, newMessage, title, getApiKey)]
  /\ UNCHANGED <<ckvars, pdfvars, viewvars, ffvars, apiKey, keySets, uivars>>

\* the provider (or the network) settles the fetch in flight
Respond(id, r) ==
  /\ InFlight(ops[id])
  /\ ops' = [ops EXCEPT ![id] = Receive(ops[id], r, getApiKey)]
  /\ UNCHANGED <<ckvars, pdfvars, viewvars, ffvars, apiKey, keySets, uivars>>

Next ==
  \/ \E pdfText \in PdfTexts, title \in Titles : CallAnalyzePaper(1, pdfText, title)
  \/ \E base64Image \in Images : CallAnalyzeImage(1, base64Image)
  \/ \E base64Image \in Images : CallAnalyzeChart(1, base64Image)
  \/ \E paperText \in ChatTexts, history \in ChatHistories,
        newMessage \in Questions, title \in Titles :
       CallChatWithPaper(1, paperText, history, newMessage, title)
  \/ \E r \in ResponsesTo(ops[1]) : Respond(1, r)

Spec == GatewayInit /\ [][Next]_vars

\* The same with the user saving keys while the operation runs; the note is
\* generated for a two-chunk text.
KeyNext ==
  \/ \E key \in KeyInputs : SetApiKey(key)
  \/ \E title \in Titles : CallAnalyzePaper(1, PaperText(2), title)
  \/ \E base64Image \in Images : CallAnalyzeImage(1, base64Image)
  \/ \E base64Image \in Images : CallAnalyzeChart(1, base64Image)
  \/ \E paperText \in ChatTexts, history \in ChatHistories,
        newMessage \in Questions, title \in Titles :
       CallChatWithPaper(1, paperText, history, newMessage, title)
  \/ \E r \in ResponsesTo(ops[1]) : Respond(1, r)

SpecKeys == GatewayInit /\ [][KeyNext]_vars

\* the continuation of a handler of this kind calls Date.now()
ReadsClock(kind, op) == Settled(op) /\ (op.pc = "resolved" \/ kind = "chat")

\* The operation `op` of handler id has run to its next fetch or has settled
\* (then the handler's continuation runs in the same task), at time t.
Advance(id, op, t) ==
  /\ ReadsClock(handlers[id].kind, op) \/ t = now
  /\ ops' = [ops EXCEPT ![id] = Forget(op)]
  /\ now' = t
  /\ IF Settled(op)
     THEN LET s == Settle(paper, storedHistory, handlers[id], op, t)
          IN /\ paper' = s.paper
             /\ storedHistory' = s.stored
             /\ handlers' = [handlers EXCEPT
                  ![id] = Finish(handlers[id], op, s.saved)]
     ELSE /\ handlers' = [handlers EXCEPT ![id].stage = "analyzing"]
          /\ UNCHANGED <<paper, storedHistory>>

\* handlePdfSelect(base64, name) up to the await of extractPdfText
HandlePdfSelect(id, file) ==
  /\ handlers[id].kind = "none"
  /\ ~MainView(paper) /\ paper.fileName = "" /\ ~paper.isAnalyzing
  /\ paper' = [paper EXCEPT !.pdfFile = file.url, !.fileName = file.name,
                            !.readResult = <<>>, !.chatMessages = <<>>,
                            !.error = "", !.isAnalyzing = TRUE, !.subTab = "read"]
  /\ handlers' = [handlers EXCEPT ![id] =
       [NoHandler EXCEPT !.kind = "pdf", !.stage = "extracting", !.file = file,
                         !.name = file.name, !.history = paper.history,
                         !.fileName = paper.fileName]]
  /\ UNCHANGED <<ckvars, pdfvars, viewvars, ffvars, gwvars, storedHistory, now>>

\* extractPdfText settles; on success analyzePaper(text, name) starts
PdfExtracted(id, t) ==
  /\ handlers[id].kind = "pdf" /\ handlers[id].stage = "extracting"
  /\ t >= now
  /\ LET ex == extractPdfText(handlers[id].file)
     IN IF ex.ok
        THEN Advance(id, analyzePaper(ex.text, handlers[id].name, getApiKey), t)
        ELSE Advance(id, Reject([IdleOp EXCEPT !.kind = "note"], ex.err), t)
  /\ UNCHANGED <<ckvars, pdfvars, viewvars, ffvars, apiKey, keySets>>

\* handleChartSelect(base64) up to the first fetch of analyzeChart
HandleChartSelect(id, base64, t) ==
  /\ handlers[id].kind = "none"
  /\ MainView(paper) /\ paper.subTab = "chart"
  /\ t >= now
  /\ LET h == [NoHandler EXCEPT !.kind = "chart", !.stage = "analyzing",
                 !.base64 = base64, !.history = paper.history,
                 !.fileName = paper.fileName, !.chartResult = paper.chartResult]
         op == analyzeChart(base64, getApiKey)
         p == [paper EXCEPT !.chartImage = base64, !.chartResult = <<>>,
                            !.error = "", !.isChartAnalyzing = TRUE]
         s == IF Settled(op) THEN Settle(p, storedHistory, h, op, t)
              ELSE Keep(p, storedHistory)
     IN /\ ReadsClock("chart", op) \/ t = now
        /\ ops' = [ops EXCEPT ![id] = Forget(op)]
        /\ paper' = s.paper
        /\ storedHistory' = s.stored
        /\ handlers' = [handlers EXCEPT ![id] =
             IF Settled(op) THEN Finish(h, op, s.saved) ELSE h]
  /\ now' = t
  /\ UNCHANGED <<ckvars, pdfvars, viewvars, ffvars, apiKey, keySets>>

\* handleSendMessage() with chatInput = input, up to the first fetch
HandleSendMessage(id, input, t) ==
  /\ handlers[id].kind = "none"
  /\ MainView(paper) /\ paper.subTab = "qa" /\ ~paper.isChatting
  /\ STrim(input) # <<>> /\ Truthy(paper.pdfFile)
  /\ t >= now
  /\ LET newUserMsg == ChatMessage("user", input, t)
         updatedMessages == Append(paper.chatMessages, newUserMsg)
         h == [NoHandler EXCEPT !.kind = "chat", !.stage = "analyzing",
                 !.history = paper.history, !.fileName = paper.fileName,
                 !.chatMessages = paper.chatMessages,
                 !.updatedMessages = updatedMessages]
         op == chatWithPaper(paper.pdfFile, paper.chatMessages, newUserMsg.text, "",
                             getApiKey)
         p == [paper EXCEPT !.chatMessages = updatedMessages, !.isChatting = TRUE]
         s == IF Settled(op) THEN Settle(p, storedHistory, h, op, t)
              ELSE Keep(p, storedHistory)
     IN /\ ops' = [ops EXCEPT ![id] = Forget(op)]
        /\ paper' = s.paper
        /\ storedHistory' = s.stored
        /\ handlers' = [handlers EXCEPT ![id] =
             IF Settled(op) THEN Finish(h, op, s.saved) ELSE h]
  /\ now' = t
  /\ UNCHANGED <<ckvars, pdfvars, viewvars, ffvars, apiKey, keySets>>

\* a fetch of handler id's operation settles
PaperRespond(id, r, t) ==
  /\ handlers[id].kind # "none"
  /\ InFlight(ops[id])
  /\ t >= now
  /\ Advance(id, Receive(ops[id], r, getApiKey), t)
  /\ UNCHANGED <<ckvars, pdfvars, viewvars, ffvars, apiKey, keySets>>

\* the tab buttons of the main view
SetSubTab(tab) ==
  /\ MainView(paper)
  /\ tab # paper.subTab
  /\ paper' = [paper EXCEPT !.subTab = tab]
  /\ UNCHANGED <<ckvars, pdfvars, viewvars, ffvars, gwvars, storedHistory, now, handlers>>

\* deleteHistoryItem(e, id), on the history tab
DeleteHistoryItem(k) ==
  /\ paper.subTab = "history"
  /\ k \in 1..Len(paper.history)
  /\ LET newHistory == RemoveId(paper.history, paper.history[k].id)
     IN /\ paper' = [paper EXCEPT !.history = newHistory]
        /\ storedHistory' = newHistory
  /\ UNCHANGED <<ckvars, pdfvars, viewvars, ffvars, gwvars, now, handlers>>

\* the history tab's clear button
ClearHistory ==
  /\ paper.subTab = "history"
  /\ paper.history # <<>>
  /\ paper' = [paper EXCEPT !.history = <<>>]
  /\ storedHistory' = <<>>
  /\ UNCHANGED <<ckvars, pdfvars, viewvars, ffvars, gwvars, now, handlers>>

\* the toolbar's re-upload button
Reupload ==
  /\ Truthy(paper.pdfFile) /\ paper.subTab # "history"
  /\ paper' = [paper EXCEPT !.pdfFile = NullStr, !.readResult = <<>>,
                            !.chartResult = <<>>, !.chatMessages = <<>>]
  /\ UNCHANGED <<ckvars, pdfvars, viewvars, ffvars, gwvars, storedHistory, now, handlers>>

\* PdfInput's clear button on the upload screen
ClearPdf ==
  /\ ~MainView(paper) /\ paper.fileName # "" /\ ~paper.isAnalyzing
  /\ paper' = [paper EXCEPT !.pdfFile = NullStr, !.fileName = ""]
  /\ UNCHANGED <<ckvars, pdfvars, viewvars, ffvars, gwvars, storedHistory, now, handlers>>

MaxHandlers == 2
MaxTime == 1

\* handler invocations are numbered in the order they start
HandlerIds == 1..Min(MaxHandlers, MaxOps)
NextHandler(id) ==
  /\ handlers[id].kind = "none"
  /\ \A j \in HandlerIds : j < id => handlers[j].kind # "none"

\* what Date.now() can return: the clock does not go back
Clock == {t \in {now, now + 1} : t <= MaxTime}

PaperImages == {Image("image/png", "chart1")}

DataUrlPrefix ==
  Lit(<<"d", "a", "t", "a", ":", "p", "d", "f", ";", "b", "a", "s", "e", "6", "4", ",">>)

PdfFiles ==
  {PdfFile("long.pdf", SCat(DataUrlPrefix, Rep("J", 12000)), TRUE,
           <<<<Rep("w", NOTE_CHUNK_SIZE)>>>>),
   PdfFile("bad.pdf", SCat(DataUrlPrefix, Lit(<<"X">>)), FALSE, <<>>),
   Unreadable(PdfFile("torn.pdf", SCat(DataUrlPrefix, Lit(<<"T">>)), TRUE,
                      <<<<Rep("w", NOTE_CHUNK_SIZE)>>, <<>>>>), 2)}

ChatInputs == {Lit(<<"w", "h", "y">>)}

PaperResponses == {NetErr, Ok(StringContent(Lit(<<" ", "m", " ">>)))}

PaperInit ==
  /\ ChunkIdle
  /\ PdfIdle
  /\ ViewerIdle
  /\ FormulaIdle
  /\ apiKey \in InitKeys
  /\ keySets = 0
  /\ ops = [id \in OpIds |-> IdleOp]
  /\ paper = InitialPaper
  /\ storedHistory = <<>>
  /\ now = 0
  /\ handlers = [id \in OpIds |-> NoHandler]

PaperNext ==
  \/ \E id \in HandlerIds, file \in PdfFiles :
       NextHandler(id) /\ HandlePdfSelect(id, file)
  \/ \E id \in HandlerIds, t \in Clock : PdfExtracted(id, t)
  \/ \E id \in HandlerIds, base64 \in PaperImages, t \in Clock :
       NextHandler(id) /\ HandleChartSelect(id, base64, t)
  \/ \E id \in HandlerIds, input \in ChatInputs, t \in Clock :
       NextHandler(id) /\ HandleSendMessage(id, input, t)
  \/ \E id \in HandlerIds, r \in PaperResponses, t \in Clock : PaperRespond(id, r, t)
  \/ \E tab \in SubTabs : SetSubTab(tab)
  \/ \E k \in 1..MaxHandlers : DeleteHistoryItem(k)
  \/ ClearHistory
  \/ Reupload
  \/ ClearPdf

SpecPaper == PaperInit /\ [][PaperNext]_vars

\* The chart and Q&A tabs of a document that is open: the component as
\* handlePdfSelect leaves it when extractPdfText has failed on the file (the
\* file stays selected, the error is set, nothing is in flight).
OpenedPdf == CHOOSE file \in PdfFiles : ~file.ok

OpenedPaper ==
  PdfFailed([InitialPaper EXCEPT !.pdfFile = OpenedPdf.url, !.fileName = OpenedPdf.name,
                                 !.isAnalyzing = TRUE, !.subTab = "read"],
            <<>>, NoHandler, extractPdfText(OpenedPdf).err, 0).paper

ChartInit ==
  /\ ChunkIdle
  /\ PdfIdle
  /\ ViewerIdle
  /\ FormulaIdle
  /\ apiKey \in InitKeys
  /\ keySets = 0
  /\ ops = [id \in OpIds |-> IdleOp]
  /\ paper = OpenedPaper
  /\ storedHistory = <<>>
  /\ now = 0
  /\ handlers = [id \in OpIds |-> NoHandler]

ChartNext ==
  \/ \E id \in HandlerIds, base64 \in PaperImages, t \in Clock :
       NextHandler(id) /\ HandleChartSelect(id, base64, t)
  \/ \E id \in HandlerIds, input \in ChatInputs, t \in Clock :
       NextHandler(id) /\ HandleSendMessage(id, input, t)
  \/ \E id \in HandlerIds, r \in PaperResponses, t \in Clock : PaperRespond(id, r, t)
  \/ \E tab \in SubTabs : SetSubTab(tab)

SpecChart == ChartInit /\ [][ChartNext]_vars


(***************************************************************************)
(* The chunker called on its own: inputs from bounded sets.                *)
(***************************************************************************)
MaxLen == 6
MaxSize == 3

ChunkChars == {"a", "b"}
ChunkTexts ==
  {Lit(q) : q \in UNION {[1..n -> ChunkChars] : n \in 0..MaxLen}}

ChunkInit ==
  /\ ck_text \in ChunkTexts
  /\ ck_size \in 1..MaxSize
  /\ ck_overlap \in 0..(ck_size - 1)
  /\ ck_pc = "call"
  /\ ck_chunks = <<>>
  /\ ck_windows = <<>>
  /\ PdfIdle
  /\ ViewerIdle
  /\ FormulaIdle
  /\ GatewayIdle
  /\ UIIdle

CallSplit ==
  /\ ck_pc = "call"
  /\ ck_chunks' = splitIntoChunks(ck_text, ck_size, ck_overlap)
  /\ ck_windows' = [k \in 1..Len(SplitWindows(ck_text, ck_size, ck_overlap)) |->
                      <<SplitWindows(ck_text, ck_size, ck_overlap)[k].start,
                        SplitWindows(ck_text, ck_size, ck_overlap)[k].end>>]
  /\ ck_pc' = "returned"
  /\ UNCHANGED <<ck_text, ck_size, ck_overlap, pdfvars, viewvars, ffvars, gwvars, uivars>>

ChunkNext == CallSplit

SpecChunk == ChunkInit /\ [][ChunkNext]_vars

\* splitIntoChunks run one loop iteration at a time.  The loop's start is 0
\* before the first push and NextStart of the last pushed end afterwards.
LoopStart ==
  IF ck_windows = <<>> THEN 0
  ELSE NextStart(ck_windows[Len(ck_windows)][2], ck_overlap)

\* the early return, or the entry into the loop
SplitEnter ==
  /\ ck_pc = "call"
  /\ IF SLen(ck_text) <= ck_size
     THEN /\ ck_chunks' = <<ck_text>>
          /\ ck_windows' = <<<<0, SLen(ck_text)>>>>
          /\ ck_pc' = "returned"
     ELSE /\ ck_pc' = "loop"
          /\ UNCHANGED <<ck_chunks, ck_windows>>
  /\ UNCHANGED <<ck_text, ck_size, ck_overlap, pdfvars, viewvars, ffvars, gwvars, uivars>>

\* one evaluation of the loop condition and, if it holds, of the body
SplitIterate ==
  /\ ck_pc = "loop"
  /\ IF ~(LoopStart < SLen(ck_text))
     THEN /\ ck_pc' = "returned"
          /\ UNCHANGED <<ck_chunks, ck_windows>>
     ELSE LET end == Min(LoopStart + ck_size, SLen(ck_text))
          IN /\ ck_chunks' = Append(ck_chunks, SSlice(ck_text, LoopStart, end))
             /\ ck_windows' = Append(ck_windows, <<LoopStart, end>>)
             /\ ck_pc' = IF end = SLen(ck_text) THEN "returned" ELSE "loop"
  /\ UNCHANGED <<ck_text, ck_size, ck_overlap, pdfvars, viewvars, ffvars, gwvars, uivars>>

ChunkLoopNext == SplitEnter \/ SplitIterate

\* the function runs to its end once called: nothing else is scheduled
SpecChunkLoop == ChunkInit /\ [][ChunkLoopNext]_vars /\ WF_vars(ChunkLoopNext)

\* C1: for 0 <= o < s, the chunks of splitIntoChunks(T, s, o) are windows of T
\* in order, every character index of T lies inside at least one of them (the
\* chunk holds T's character at that index), and there is exactly one chunk,
\* equal to T, whenever len(T) <= s.
C1_ChunksCover ==
  ck_pc = "returned" =>
    /\ Len(ck_chunks) = Len(ck_windows)
    /\ \A k \in 1..Len(ck_chunks) :
         /\ 0 <= ck_windows[k][1] /\ ck_windows[k][2] <= SLen(ck_text)
         /\ SLen(ck_chunks[k]) = ck_windows[k][2] - ck_windows[k][1]
    /\ \A k \in 1..(Len(ck_chunks) - 1) : ck_windows[k][1] < ck_windows[k + 1][1]
    /\ \A i \in 0..(SLen(ck_text) - 1) :
         \E k \in 1..Len(ck_chunks) :
           /\ ck_windows[k][1] <= i /\ i < ck_windows[k][2]
           /\ SCharAt(ck_chunks[k], i - ck_windows[k][1]) = SCharAt(ck_text, i)
    /\ (SLen(ck_text) <= ck_size => ck_chunks = <<ck_text>>)

C1_Witness ==
  /\ ck_pc = "returned"
  /\ ck_overlap > 0
  /\ Len(ck_chunks) >= 3
  /\ SLen(ck_chunks[Len(ck_chunks)]) < ck_size

(***************************************************************************)
(* Properties of the gateway                                               *)
(***************************************************************************)
\* a call that is over: never sent (no key) or answered
Finished(c) == ~c.sent \/ c.response # NoResp

\* how a finished call ended
Outcome(c) == IF ~c.sent THEN Thrown(MissingKeyError) ELSE ReadResponse(c.response)

\* C2: when the primary request fails and the fallback request succeeds,
\* callWithFallback returns the fallback's normalized text and the caller
\* observes no error.
C2_FallbackResult ==
  \A id \in OpIds :
    LET op == ops[id] IN
    \A k \in 1..Len(op.calls) :
      LET c == op.calls[k] IN
      (c.attempt = "fallback" /\ c.sent /\ c.response # NoResp
         /\ ReadResponse(c.response).ok) =>
        /\ k > 1
        /\ op.calls[k - 1].attempt = "primary" /\ op.calls[k - 1].inv = c.inv
        /\ Finished(op.calls[k - 1]) /\ ~Outcome(op.calls[k - 1]).ok
        /\ Len(op.cwf) >= c.inv
        /\ op.cwf[c.inv] = Returned(ReadResponse(c.response).text)
        /\ (op.kind \in {"chart", "chat"} =>
              /\ op.pc = "resolved"
              /\ op.result = ReadResponse(c.response).text
              /\ op.error = NoErr)
        /\ (op.kind = "note" =>
              /\ Len(op.partialNotes) >= c.inv
              /\ op.partialNotes[c.inv] =
                   SCat(PartHeading(c.inv), STrim(ReadResponse(c.response).text))
              /\ (op.pc = "rejected" => Len(op.cwf) > c.inv))

C2_Witness ==
  \E id \in OpIds :
    LET op == ops[id] IN
    /\ op.kind = "chart" /\ op.pc = "resolved"
    /\ Len(op.calls) = 2
    /\ op.calls[1].response = Ok(StringContent(Lit(<<" ", "\n">>)))
    /\ op.calls[2].response =
         Ok(ArrayContent(<<Part("image_url", NullStr), Part("text", Lit(<<"p">>)),
                           Part("text", Lit(<<"q">>))>>))
    /\ op.result = Lit(<<"p">>)

\* C3: when both the primary and the fallback request fail, the error that
\* callWithFallback propagates is the error of the fallback attempt.
C3_FallbackErrorPropagates ==
  \A id \in OpIds :
    LET op == ops[id] IN
    \A k \in 1..Len(op.calls) :
      LET c == op.calls[k] IN
      (c.attempt = "fallback" /\ Finished(c) /\ ~Outcome(c).ok) =>
        /\ Len(op.cwf) = c.inv
        /\ op.cwf[c.inv] = Thrown(Outcome(c).err)
        /\ op.pc = "rejected"
        /\ op.error = Outcome(c).err

C3_Witness ==
  \E id \in OpIds :
    LET op == ops[id] IN
    /\ op.pc = "rejected"
    /\ Len(op.calls) = 2
    /\ op.calls[1].sent /\ op.calls[2].sent
    /\ op.calls[1].response = NetErr
    /\ op.calls[2].response = Status("", "bad request", "")
    /\ op.error = Err("Error", "bad request")

\* C4: within one callWithFallback the fallback request is issued only after
\* the primary request has finished with a failure, with the primary's messages
\* and options; a successful primary has no fallback; there are at most two
\* requests per invocation and never two in flight.
C4_FallbackAfterPrimary ==
  \A id \in OpIds :
    LET op == ops[id] IN
    /\ \A k \in 1..Len(op.calls) :
         LET c == op.calls[k] IN
         /\ (k < Len(op.calls) => Finished(c))
         /\ (c.sent /\ c.response = NoResp => op.pc = c.attempt)
         /\ (InFlight(op) => k = Len(op.calls) \/ c.response # NoResp)
         /\ c.inv <= Len(op.cwf) + 1
         /\ (c.attempt = "primary" => k = 1 \/ op.calls[k - 1].inv < c.inv)
         /\ (c.attempt = "fallback" =>
               /\ k > 1
               /\ op.calls[k - 1].attempt = "primary"
               /\ op.calls[k - 1].inv = c.inv
               /\ Finished(op.calls[k - 1])
               /\ ~Outcome(op.calls[k - 1]).ok
               /\ c.messages = op.calls[k - 1].messages
               /\ c.options = op.calls[k - 1].options
               /\ c.model = op.fallbackModel
               /\ op.calls[k - 1].model = op.primaryModel)
    /\ \A n \in 1..(Len(op.cwf) + 1) :
         Cardinality({k \in 1..Len(op.calls) : op.calls[k].inv = n}) <= 2

C4_Witness ==
  \E id \in OpIds :
    LET op == ops[id] IN
    /\ op.kind = "note" /\ op.pc = "fallback"
    /\ Len(op.calls) = 3
    /\ op.calls[1].attempt = "primary" /\ Outcome(op.calls[1]).ok
    /\ op.calls[2].attempt = "primary" /\ op.calls[2].response = NetErr
    /\ op.calls[3].attempt = "fallback" /\ op.calls[3].sent
    /\ op.calls[3].response = NoResp

\* C5: during analyzePaper no request (primary or fallback) for chunk k+1 is
\* issued before the note for chunk k has been received and appended to the
\* partial notes; requests are issued in increasing chunk order.
C5_ChunksSequential ==
  \A id \in OpIds :
    LET op == ops[id] IN
    op.kind = "note" =>
      \A k \in 1..Len(op.calls) :
        LET c == op.calls[k] IN
        /\ c.messages.part = c.inv
        /\ c.messages.total = Len(op.chunks)
        /\ c.messages.text = op.chunks[c.messages.part]
        /\ (k > 1 => op.calls[k - 1].messages.part <= c.messages.part)
        /\ (k > 1 => Finished(op.calls[k - 1]))
        /\ Len(op.partialNotes) >= c.messages.part - 1
        /\ \A m \in 1..(c.messages.part - 1) :
             /\ op.cwf[m].ok
             /\ op.partialNotes[m] = SCat(PartHeading(m), STrim(op.cwf[m].text))

C5_Witness ==
  \E id \in OpIds :
    LET op == ops[id] IN
    /\ op.kind = "note" /\ op.pc = "primary"
    /\ Len(op.chunks) = 3
    /\ Len(op.calls) = 4
    /\ op.calls[2].attempt = "fallback"
    /\ op.calls[4].messages.part = 3
    /\ Len(op.partialNotes) = 2

\* C6: if the call for chunk N fails (primary and fallback both fail), the note
\* generation fails: no request for a later chunk is issued and analyzePaper
\* returns no note, not even the notes of chunks 1..N-1.
C6_ChunkFailureAborts ==
  \A id \in OpIds :
    LET op == ops[id] IN
    op.kind = "note" =>
      \A n \in 1..Len(op.cwf) :
        ~op.cwf[n].ok =>
          /\ n = Len(op.cwf)
          /\ op.pc = "rejected"
          /\ op.error = op.cwf[n].err
          /\ op.result = <<>>
          /\ \A k \in 1..Len(op.calls) : op.calls[k].inv <= n

C6_Witness ==
  \E id \in OpIds :
    LET op == ops[id] IN
    /\ op.kind = "note" /\ op.pc = "rejected"
    /\ Len(op.chunks) = 3
    /\ Len(op.cwf) = 2
    /\ Len(op.partialNotes) = 1
    /\ Len(op.calls) = 3
    /\ op.calls[2].sent /\ op.calls[3].sent

\* C10: chatWithPaper with an empty or whitespace-only document text fails with
\* the empty-document error before any network request is issued.
C10_EmptyDocumentNoRequest ==
  \A id \in OpIds :
    LET op == ops[id] IN
    (op.kind = "chat" /\ (op.args.paperText = NullStr \/ STrim(op.args.paperText) = <<>>)) =>
      /\ op.pc = "rejected"
      /\ op.error = EmptyDocumentError
      /\ op.calls = <<>>
      /\ op.cwf = <<>>

C10_Witness ==
  \E id \in OpIds :
    LET op == ops[id] IN
    /\ op.kind = "chat"
    /\ op.args.paperText = Lit(<<" ", "\n">>)
    /\ hasApiKey
    /\ op.pc = "rejected"
    /\ op.calls = <<>>

(***************************************************************************)
(* Properties of the history kept by PaperFeature                          *)
(***************************************************************************)
\* handler id returns in this step
Returns(id) == handlers[id].stage # "done" /\ handlers'[id].stage = "done"

IdsOf(list) == {list[k].id : k \in 1..Len(list)}
ItemsOf(list) == {list[k] : k \in 1..Len(list)}
UniqueIds(list) == \A i, j \in 1..Len(list) : list[i].id = list[j].id => i = j
Without(list, id) == SelectSeq(list, LAMBDA h : h.id # id)
IndexOf(list, id) == CHOOSE k \in 1..Len(list) : list[k].id = id

\* the entries the two lists share are in the same relative order
SameOrder(before, after) ==
  \A i, j \in 1..Len(after) :
    (i < j /\ after[i].id \in IdsOf(before) /\ after[j].id \in IdsOf(before)) =>
      IndexOf(before, after[i].id) < IndexOf(before, after[j].id)

\* the answer an item of this handler records
RecordsResult(kind, item, result) ==
  IF kind = "chat"
  THEN Len(item.content) > 0 /\ item.content[Len(item.content)].text = result
  ELSE item.content = result

\* C7: a history item is saved only when its analysis completed successfully.
\* A step in which a handler (note generation, chart analysis or chat turn)
\* returns after a failure changes neither the in-memory history nor the
\* persisted blob; and a step that puts an item into either list that the
\* list did not hold before is the return of a handler whose operation
\* resolved, the item at the front recording that operation's result.
C7_FailureSavesNothing ==
  [][/\ \A id \in HandlerIds :
          (Returns(id) /\ handlers'[id].outcome = "failed") =>
            /\ paper'.history = paper.history
            /\ storedHistory' = storedHistory
     /\ (~(ItemsOf(storedHistory') \subseteq ItemsOf(storedHistory))
           \/ ~(ItemsOf(paper'.history) \subseteq ItemsOf(paper.history))) =>
          \E id \in HandlerIds :
            /\ Returns(id)
            /\ handlers'[id].outcome = "ok"
            /\ ops'[id].pc = "resolved"
            /\ Len(storedHistory') > 0
            /\ handlers'[id].saved = <<storedHistory'[1]>>
            /\ paper'.history = storedHistory'
            /\ RecordsResult(handlers'[id].kind, storedHistory'[1], ops'[id].result)
    ]_vars

\* a handler has returned after a failure while the history held items, and
\* the lists are still what they were when the handler started
C7_Witness ==
  \E id \in HandlerIds :
    /\ handlers[id].stage = "done" /\ handlers[id].outcome = "failed"
    /\ ops[id].pc = "rejected"
    /\ handlers[id].history # <<>>
    /\ storedHistory = handlers[id].history
    /\ paper.history = handlers[id].history

C9_MutatesStoredList ==
  [][storedHistory' # storedHistory =>
       \/ \E id \in HandlerIds :
            /\ Returns(id)
            /\ Len(handlers'[id].saved) = 1
            /\ storedHistory' = <<handlers'[id].saved[1]>>
                                  \o Without(storedHistory, handlers'[id].saved[1].id)
       \/ \E k \in 1..Len(storedHistory) :
            storedHistory' = Without(storedHistory, storedHistory[k].id)
       \/ storedHistory' = <<>>
    ]_vars

(***************************************************************************)
(* extractPdfText called on its own                                        *)
(***************************************************************************)
MaxPages == 3
MaxItems == 2

\* the str of a text item of a page
Fragments == {Lit(<<"A">>), Lit(<<"[", "P", "a", "g", "e", " ", "2", "]">>)}
PageItems == UNION {[1..n -> Fragments] : n \in 0..MaxItems}
PdfDocuments ==
  {PdfFile("doc.pdf", SCat(DataUrlPrefix, Lit(<<"J">>)), TRUE, pages) :
     pages \in UNION {[1..n -> PageItems] : n \in 0..MaxPages}}
  \cup {OpenedPdf}

PdfInit ==
  /\ pdf_file \in PdfDocuments
  /\ pdf_pc = "call"
  /\ pdf_result = NoExtraction
  /\ ChunkIdle
  /\ ViewerIdle
  /\ FormulaIdle
  /\ GatewayIdle
  /\ UIIdle

CallExtractPdfText ==
  /\ pdf_pc = "call"
  /\ pdf_result' = extractPdfText(pdf_file)
  /\ pdf_pc' = "returned"
  /\ UNCHANGED <<pdf_file, ckvars, viewvars, ffvars, gwvars, uivars>>

PdfNext == CallExtractPdfText

SpecPdf == PdfInit /\ [][PdfNext]_vars

\* "[Page k]", as characters
Marker(k) ==
  Chars(SCat(SCat(Lit(<<"[", "P", "a", "g", "e", " ">>), NumStr(k)), Lit(<<"]">>)))

\* where pat occurs in txt
Occurrences(pat, txt) ==
  {i \in 1..(Len(txt) - Len(pat) + 1) : SubSeq(txt, i, i + Len(pat) - 1) = pat}

StartsWith(txt, pat) == Len(pat) <= Len(txt) /\ SubSeq(txt, 1, Len(pat)) = pat

MaxViewPages == 2
MaxRenders == 2

ViewPages == 1..MaxViewPages

ViewerInit ==
  /\ viewer = [p \in ViewPages |-> Commit(MountedPage, MountedPage)]
  /\ ChunkIdle
  /\ PdfIdle
  /\ FormulaIdle
  /\ GatewayIdle
  /\ UIIdle

\* the intersection observer delivers an entry for the page's container
ObserverCallback(p, isIntersecting) ==
  /\ viewer[p].observing
  /\ viewer' = [viewer EXCEPT ![p] =
       IF isIntersecting
       THEN Commit([@ EXCEPT !.isVisible = TRUE, !.observing = FALSE], @)
       ELSE @]
  /\ UNCHANGED <<ckvars, pdfvars, ffvars, gwvars, uivars>>

\* the parent renders again with the same document: PdfPage renders again
\* with the same props
Rerender(p) ==
  /\ viewer[p].mounted /\ viewer[p].rerenders < MaxRenders
  /\ viewer' = [viewer EXCEPT ![p] = Commit([@ EXCEPT !.rerenders = @ + 1], @)]
  /\ UNCHANGED <<ckvars, pdfvars, ffvars, gwvars, uivars>>

\* pdfDoc.getPage settles: on success page.render starts unless the canvas
\* is gone; a rejection is swallowed by the catch
PageLoaded(p, ok) ==
  /\ viewer[p].task = "loading"
  /\ viewer' = [viewer EXCEPT ![p] =
       IF ok /\ @.mounted
       THEN [@ EXCEPT !.task = "rendering", !.rasterized = @ + 1]
       ELSE [@ EXCEPT !.task = "returned"]]
  /\ UNCHANGED <<ckvars, pdfvars, ffvars, gwvars, uivars>>

\* renderTask.promise settles
RenderSettled(p, ok) ==
  /\ viewer[p].task = "rendering"
  /\ viewer' = [viewer EXCEPT ![p].task = IF ok THEN "done" ELSE "returned"]
  /\ UNCHANGED <<ckvars, pdfvars, ffvars, gwvars, uivars>>

\* the component is torn down: both cleanups run
Unmount(p) ==
  /\ viewer[p].mounted
  /\ viewer' = [viewer EXCEPT ![p] =
       [@ EXCEPT !.mounted = FALSE, !.observing = FALSE,
                 !.task = IF @ = "rendering" THEN "cancelled" ELSE @]]
  /\ UNCHANGED <<ckvars, pdfvars, ffvars, gwvars, uivars>>

ViewerNext ==
  \/ \E p \in ViewPages, isIntersecting \in BOOLEAN : ObserverCallback(p, isIntersecting)
  \/ \E p \in ViewPages : Rerender(p)
  \/ \E p \in ViewPages, ok \in BOOLEAN : PageLoaded(p, ok)
  \/ \E p \in ViewPages, ok \in BOOLEAN : RenderSettled(p, ok)
  \/ \E p \in ViewPages : Unmount(p)

SpecViewer == ViewerInit /\ [][ViewerNext]_vars

\* C26: a PDF page is never rasterized (nor its render started) before its
\* container has been reported near-visible by the intersection observer,
\* and each mounted page is rendered exactly once: later observer callbacks
\* and re-renders with the same document and page number start no second
\* render, and a page whose render has completed was rasterized once.
C26_RenderedOnce ==
  \A p \in ViewPages :
    /\ viewer[p].started <= 1 /\ viewer[p].rasterized <= viewer[p].started
    /\ viewer[p].started > 0 => (viewer[p].isVisible /\ ~viewer[p].observing)
    /\ ~viewer[p].isVisible => viewer[p].task = "none"
    /\ (viewer[p].isVisible /\ viewer[p].mounted) => viewer[p].started = 1
    /\ viewer[p].task \in {"rendering", "done", "cancelled"} => viewer[p].rasterized = 1

\* a visible page was rendered again by its parent after its rasterization
\* completed, while another page is still waiting to become visible
C26_Witness ==
  /\ viewer[1].task = "done" /\ viewer[1].rasterized = 1
  /\ viewer[1].rerenders > 0
  /\ viewer[2].observing /\ viewer[2].task = "none"

(***************************************************************************)
(* Properties of the gateway's use of the key store                        *)
(***************************************************************************)
Started(op) == op.kind # "none"

\* chatWithPaper was called without a document text
ChatWithoutText(op) == op.kind = "chat" /\ EmptyDocument(op.args.paperText)

\* C11: when no credential is stored (the key is absent or the empty string)
\* every gateway operation (analyzeImage, analyzePaper, analyzeChart, and
\* chatWithPaper with a non-empty text) is rejected with the missing-key
\* error and none of its calls is sent to the network.
C11_NoKeyNoRequest ==
  ~Truthy(apiKey) =>
    \A id \in OpIds :
      (Started(ops[id]) /\ ~ChatWithoutText(ops[id])) =>
        /\ ops[id].pc = "rejected"
        /\ ops[id].error = MissingKeyError
        /\ \A k \in 1..Len(ops[id].calls) :
             ~ops[id].calls[k].sent /\ ops[id].calls[k].response = NoResp

\* analyzeImage was called while the stored key is the empty string
C11_Witness ==
  /\ apiKey = <<>>
  /\ ops[1].kind = "formula"
  /\ ops[1].pc = "rejected" /\ ops[1].error = MissingKeyError
  /\ ops[1].calls # <<>>
  /\ \A k \in 1..Len(ops[1].calls) : ~ops[1].calls[k].sent

\* C12: a missing-key failure is never retried: when the primary attempt
\* fails because no key is configured, callSiliconChat is not invoked for the
\* fallback model.
C12_MissingKeyNotRetried ==
  \A id \in OpIds :
    \A k \in 1..Len(ops[id].calls) :
      (ops[id].calls[k].attempt = "primary" /\ ~ops[id].calls[k].sent) =>
        ~(\E j \in 1..Len(ops[id].calls) :
            /\ j > k
            /\ ops[id].calls[j].attempt = "fallback"
            /\ ops[id].calls[j].inv = ops[id].calls[k].inv)

\* C13: each request carries the key that is in the store when the request
\* is issued. A step never alters the key of a call already made (so a key
\* saved while a request is in flight does not change that request), and
\* every call a step adds (the fallback attempt and the calls for later
\* chunks included) carries the key stored at that step and is sent exactly
\* when that key is non-empty.
C13_KeyReadPerRequest ==
  [][\A id \in OpIds :
       LET old == ops[id].calls
           new == ops'[id].calls
       IN /\ Len(new) >= Len(old)
          /\ \A k \in 1..Len(old) :
               new[k].key = old[k].key /\ new[k].sent = old[k].sent
          /\ \A k \in (Len(old) + 1)..Len(new) :
               new[k].key = apiKey /\ new[k].sent = Truthy(apiKey)
    ]_vars

\* a note operation has sent one request with the first key and, after a new
\* key was saved while that request was in flight, a later request with the
\* new key
C13_Witness ==
  /\ ops[1].kind = "note"
  /\ \E j, k \in 1..Len(ops[1].calls) :
       /\ j < k
       /\ ops[1].calls[j].sent /\ ops[1].calls[k].sent
       /\ ops[1].calls[j].key # ops[1].calls[k].key
       /\ ops[1].calls[k].key = apiKey
       /\ ops[1].calls[j].inv # ops[1].calls[k].inv

(***************************************************************************)
(* Properties of formula extraction and of the response reader             *)
(***************************************************************************)
\* callWithFallback has returned a text to analyzeImage
FormulaAnswered(op) ==
  op.kind = "formula" /\ op.cwf # <<>> /\ op.cwf[Len(op.cwf)].ok

AnswerText(op) == op.cwf[Len(op.cwf)].text

\* the text is JSON for an object whose latex and explanation are strings
HasBothStrings(text) ==
  LET parsed == JsonParse(text)
  IN /\ parsed.ok
     /\ parsed.v.t = "object"
     /\ Prop(parsed.v, LatexKey).t = "string"
     /\ Prop(parsed.v, ExplanationKey).t = "string"

\* C14: when the provider's text is well-formed JSON with string fields
\* latex and explanation, analyzeImage resolves with exactly {latex,
\* explanation}, each field the provider's value without its leading and
\* trailing whitespace.
C14_FormulaExact ==
  \A id \in OpIds :
    (FormulaAnswered(ops[id]) /\ HasBothStrings(AnswerText(ops[id]))) =>
      LET v == JsonParse(AnswerText(ops[id])).v
      IN /\ ops[id].pc = "resolved"
         /\ ops[id].error = NoErr
         /\ ops[id].result = [latex |-> STrim(Prop(v, LatexKey).s),
                               explanation |-> STrim(Prop(v, ExplanationKey).s)]

\* analyzeImage resolved with fields that the trimming shortened
C14_Witness ==
  /\ FormulaAnswered(ops[1]) /\ HasBothStrings(AnswerText(ops[1]))
  /\ ops[1].pc = "resolved"
  /\ ops[1].result.latex = Lit(<<"$", "$", "x", "$", "$">>)
  /\ ops[1].result.explanation = Lit(<<"d", "e", "s", "c">>)
  /\ Prop(JsonParse(AnswerText(ops[1])).v, LatexKey).s # ops[1].result.latex
  /\ Prop(JsonParse(AnswerText(ops[1])).v, ExplanationKey).s # ops[1].result.explanation

\* C15: when the model call succeeds but its text is not parsable JSON,
\* analyzeImage is rejected with the malformed-result error, has no result,
\* and the failure is not retried: the call that returned the text is the
\* operation's last call.
C15_UnparsableNotRetried ==
  \A id \in OpIds :
    (FormulaAnswered(ops[id]) /\ ~JsonParse(AnswerText(ops[id])).ok) =>
      LET calls == ops[id].calls
      IN /\ ops[id].pc = "rejected"
         /\ ops[id].error = MalformedResultError
         /\ ops[id].result = IdleOp.result
         /\ Len(ops[id].cwf) = 1
         /\ calls[Len(calls)].response \notin {NoResp}
         /\ calls[Len(calls)].response.kind = "http"
         /\ calls[Len(calls)].response.ok
         /\ \A k \in 1..Len(calls) : calls[k].response # NoResp

\* the primary model answered with prose and no fallback request followed
C15_Witness ==
  /\ FormulaAnswered(ops[1]) /\ ~JsonParse(AnswerText(ops[1])).ok
  /\ ops[1].pc = "rejected"
  /\ Len(ops[1].calls) = 1
  /\ ops[1].calls[1].attempt = "primary"

\* C16: if the provider's text parses as JSON but does not hold both string
\* fields latex and explanation (a field is missing or no string, or the JSON
\* is a number, an array or another non-object), analyzeImage is rejected
\* with the malformed-result error and resolves with no result, in
\* particular with no result that has an empty field.
C16_IncompleteJsonFails ==
  \A id \in OpIds :
    (/\ FormulaAnswered(ops[id])
     /\ JsonParse(AnswerText(ops[id])).ok
     /\ ~HasBothStrings(AnswerText(ops[id]))) =>
      /\ ops[id].pc = "rejected"
      /\ ops[id].error = MalformedResultError
      /\ ops[id].result = IdleOp.result

\* the content of a successful response holds no usable text
Blank(content) ==
  \/ content.shape = "absent"
  \/ content.shape = "string" /\ STrim(content.text) = <<>>
  \/ /\ content.shape = "array"
     /\ \A k \in 1..Len(content.parts) :
          content.parts[k].type = "text" =>
            (~Truthy(content.parts[k].text) \/ STrim(content.parts[k].text) = <<>>)

BlankAnswer(c) == c.response.kind = "http" /\ c.response.ok /\ Blank(c.response.content)

\* the call after call k of the operation is the fallback attempt of the
\* same callWithFallback, with the same messages and options
FallbackFollows(op, k) ==
  /\ Len(op.calls) > k
  /\ op.calls[k + 1].attempt = "fallback"
  /\ op.calls[k + 1].inv = op.calls[k].inv
  /\ op.calls[k + 1].model = op.fallbackModel
  /\ op.calls[k + 1].messages = op.calls[k].messages
  /\ op.calls[k + 1].options = op.calls[k].options

\* the response of a call that failed on the network or with an error status
TransportFailure(c) ==
  c.response.kind = "neterr" \/ (c.response.kind = "http" /\ ~c.response.ok)

\* C17: a successful HTTP response whose content is absent, empty,
\* all-whitespace, or an array without a non-empty text part is never
\* returned as a success. On the primary model the fallback model is tried
\* with the same messages and options, as after a network or status failure;
\* on the fallback model callWithFallback throws and the operation is
\* rejected.
C17_BlankIsFailure ==
  \A id \in OpIds :
    \A k \in 1..Len(ops[id].calls) :
      LET c == ops[id].calls[k]
      IN /\ BlankAnswer(c) =>
              /\ c.attempt = "primary" => FallbackFollows(ops[id], k)
              /\ c.attempt = "fallback" =>
                   /\ ~ops[id].cwf[c.inv].ok
                   /\ ops[id].pc = "rejected"
                   /\ ops[id].error = ops[id].cwf[c.inv].err
              /\ (Len(ops[id].cwf) >= c.inv /\ ops[id].cwf[c.inv].ok) =>
                   /\ c.attempt = "primary"
                   /\ ~BlankAnswer(ops[id].calls[k + 1])
         /\ (TransportFailure(c) /\ c.attempt = "primary") => FallbackFollows(ops[id], k)

\* the primary model answered with whitespace only and the fallback model,
\* tried next, answered
C17_Witness ==
  /\ Len(ops[1].calls) = 2
  /\ BlankAnswer(ops[1].calls[1])
  /\ ops[1].calls[1].response.content.shape = "string"
  /\ ops[1].calls[1].response.content.text # <<>>
  /\ FallbackFollows(ops[1], 1)
  /\ ops[1].pc = "resolved"

\* the call that answered invocation n of callWithFallback
AnsweringCall(op, n) ==
  op.calls[CHOOSE k \in 1..Len(op.calls) :
             /\ op.calls[k].inv = n
             /\ \A j \in 1..Len(op.calls) : op.calls[j].inv = n => j <= k]

FirstTextIndex(parts) ==
  CHOOSE k \in 1..Len(parts) :
    parts[k].type = "text" /\ \A j \in 1..(k - 1) : parts[j].type # "text"

\* C18: when callSiliconChat returns and the provider's content is an array
\* of typed parts, the text returned is the text of the first part of type
\* text (parts of other types before it are skipped); when the content is a
\* plain string, that string is returned unchanged.
C18_FirstTextPart ==
  \A id \in OpIds :
    \A n \in 1..Len(ops[id].cwf) :
      ops[id].cwf[n].ok =>
        LET content == AnsweringCall(ops[id], n).response.content
        IN /\ content.shape \in {"array", "string"}
           /\ content.shape = "array" =>
                /\ \E k \in 1..Len(content.parts) : content.parts[k].type = "text"
                /\ ops[id].cwf[n].text = content.parts[FirstTextIndex(content.parts)].text
           /\ content.shape = "string" => ops[id].cwf[n].text = content.text

\* the text of the second part was returned: the first part is an image and
\* a third part is a text too
C18_Witness ==
  /\ ops[1].cwf # <<>> /\ ops[1].cwf[1].ok
  /\ LET content == AnsweringCall(ops[1], 1).response.content
     IN /\ content.shape = "array"
        /\ Len(content.parts) = 3
        /\ content.parts[1].type # "text"
        /\ content.parts[3].type = "text"
        /\ ops[1].cwf[1].text = content.parts[2].text

(***************************************************************************)
(* Properties of PaperFeature's failure paths                              *)
(***************************************************************************)
\* the chart result on display when handler id was invoked, seen from the
\* step in which it returns
ChartResultBefore(id) ==
  IF handlers[id].kind = "none" THEN paper.chartResult ELSE handlers[id].chartResult

\* C19: a failed chart analysis or a failed chat turn leaves the prior state
\* untouched: when the handler returns after its failure, the chart result
\* on display is the one that was on display before the attempt (for a chat
\* turn: before the step), and the step changes neither the in-memory history
\* nor the persisted one.
C19_FailureKeepsPriorState ==
  [][\A id \in HandlerIds :
       (Returns(id) /\ handlers'[id].outcome = "failed") =>
         /\ handlers'[id].kind = "chart" =>
              /\ paper'.chartResult = ChartResultBefore(id)
              /\ paper'.history = paper.history
              /\ storedHistory' = storedHistory
         /\ handlers'[id].kind = "chat" =>
              /\ paper'.chartResult = paper.chartResult
              /\ paper'.history = paper.history
              /\ storedHistory' = storedHistory
    ]_vars

(***************************************************************************)
(* Properties of the PDF handler's failure path                            *)
(***************************************************************************)
\* getDocument rejects on the file, or reading one of its pages does
CannotBeRead(file) == ~file.ok \/ file.unreadable \in 1..Len(file.pages)

\* C21: if the PDF cannot be opened, or reading any page fails,
\* extractPdfText fails and returns no partial text: the step in which the
\* extraction of such a file settles is the return of the PDF handler, with
\* no call to the AI gateway issued, the operation rejected, an error message
\* set, no note set, history and persisted history unchanged and the
\* analyzing flag false.
C21_UnreadablePdfFails ==
  [][\A id \in HandlerIds :
       (/\ handlers[id].kind = "pdf" /\ handlers[id].stage = "extracting"
        /\ CannotBeRead(handlers[id].file)
        /\ handlers'[id] # handlers[id]) =>
         /\ Returns(id)
         /\ handlers'[id].outcome = "failed"
         /\ handlers'[id].saved = <<>>
         /\ ops'[id].pc = "rejected"
         /\ ops'[id].calls = <<>> /\ ops'[id].cwf = <<>>
         /\ ~InFlight(ops'[id])
         /\ paper'.error # "" /\ paper'.error = ops'[id].error.message
         /\ paper'.readResult = paper.readResult
         /\ paper'.history = paper.history
         /\ storedHistory' = storedHistory
         /\ ~paper'.isAnalyzing
    ]_vars

\* the handler has returned for a file whose second page could not be read
\* while the history held an item
C21_Witness ==
  \E id \in HandlerIds :
    /\ handlers[id].kind = "pdf" /\ handlers[id].stage = "done"
    /\ handlers[id].outcome = "failed"
    /\ ops[id].error = PageReadError
    /\ paper.error = PageReadError.message
    /\ ~paper.isAnalyzing
    /\ storedHistory # <<>>

(***************************************************************************)
(* Further properties of the chunker                                       *)
(***************************************************************************)
\* where chunk k starts if the first chunk starts at 0 and each later one o
\* characters before the end of the one before
RECURSIVE StartOf(_, _, _)
StartOf(chunks, o, k) ==
  IF k = 1 THEN 0 ELSE StartOf(chunks, o, k - 1) + SLen(chunks[k - 1]) - o

\* C22: for len(T) > s and 0 <= o < s the chunks are contiguous substrings
\* of T in increasing start order, the first starting at 0, each later one
\* starting exactly o characters before the end of the previous one; every
\* chunk but the last has length exactly s, and the last one ends at the end
\* of T and has length at most s.
C22_ChunkWindows ==
  (ck_pc = "returned" /\ SLen(ck_text) > ck_size) =>
    LET n == Len(ck_chunks)
    IN /\ n >= 2
       /\ \A k \in 1..n :
            ck_chunks[k] = SSlice(ck_text, StartOf(ck_chunks, ck_overlap, k),
                                  StartOf(ck_chunks, ck_overlap, k) + SLen(ck_chunks[k]))
       /\ \A k \in 1..(n - 1) :
            /\ StartOf(ck_chunks, ck_overlap, k) < StartOf(ck_chunks, ck_overlap, k + 1)
            /\ SLen(ck_chunks[k]) = ck_size
       /\ StartOf(ck_chunks, ck_overlap, n) + SLen(ck_chunks[n]) = SLen(ck_text)
       /\ SLen(ck_chunks[n]) <= ck_size
       /\ SLen(ck_chunks[n]) >= 1

\* a text longer than the size was split with an overlap of 1 into three
\* chunks or more, the last one shorter than the size
C22_Witness ==
  /\ ck_pc = "returned"
  /\ SLen(ck_text) > ck_size
  /\ ck_overlap = 1 /\ ck_size = 3
  /\ Len(ck_chunks) >= 3
  /\ SLen(ck_chunks[Len(ck_chunks)]) < ck_size
  /\ ck_chunks[1] # ck_chunks[2]

\* C28: splitIntoChunks terminates for every text, size >= 1 and
\* 0 <= overlap < size: each window pushed after another starts strictly
\* later than it, and the call returns.
C28_SplitTerminates ==
  /\ [][(Len(ck_windows') > Len(ck_windows) /\ Len(ck_windows) >= 1) =>
          ck_windows'[Len(ck_windows')][1] > ck_windows[Len(ck_windows)][1]]_vars
  /\ <>(ck_pc = "returned")

\* the loop has run four iterations or more, with an overlap, and returned
C28_Witness ==
  /\ ck_pc = "returned"
  /\ ck_overlap > 0
  /\ Len(ck_windows) >= 4
  /\ ck_chunks = splitIntoChunks(ck_text, ck_size, ck_overlap)

(***************************************************************************)
(* Properties of the assembled note                                        *)
(***************************************************************************)
\* every chunk of the note operation has been answered
AllChunksAnswered(op) ==
  /\ op.kind = "note"
  /\ Len(op.cwf) = Len(op.chunks)
  /\ \A k \in 1..Len(op.cwf) : op.cwf[k].ok

\* C23: when all n chunk calls succeed, analyzePaper returns the synthetic
\* top-level heading followed by exactly n parts, part k being the heading
\* of part k followed by the trimmed note returned for chunk k, in chunk
\* order 1..n, whichever model answered each chunk.
C23_NoteAssembled ==
  \A id \in OpIds :
    AllChunksAnswered(ops[id]) =>
      LET op == ops[id]
          parts == [k \in 1..Len(op.chunks) |->
                      SCat(PartHeading(k), STrim(op.cwf[k].text))]
      IN /\ op.pc = "resolved"
         /\ op.error = NoErr
         /\ op.result = SCat(NoteHeading, Join(parts, Lit(<<"\n", "\n">>)))

\* three chunks were answered, the second by the fallback model, with notes
\* that differ and that the trimming shortened
C23_Witness ==
  \E id \in OpIds :
    LET op == ops[id] IN
    /\ AllChunksAnswered(op) /\ op.pc = "resolved"
    /\ Len(op.chunks) = 3
    /\ Len(op.calls) = 4
    /\ op.calls[3].attempt = "fallback" /\ op.calls[3].inv = 2
    /\ op.cwf[1].text # op.cwf[2].text
    /\ STrim(op.cwf[1].text) # op.cwf[1].text

(***************************************************************************)
(* Properties of the chat turn                                             *)
(***************************************************************************)
\* the uploaded PDF: the file whose data URL the component holds
UploadedPdf == CHOOSE file \in PdfFiles : file.url = paper.pdfFile

\* handler id is invoked in this step as a chat turn that reaches the gateway
ChatTurnStarts(id) ==
  /\ handlers[id].kind = "none" /\ handlers'[id].kind = "chat"
  /\ ops'[id].calls # <<>>

\* C24: the document context embedded in the chat request that the UI issues
\* for a chat turn is the text the extractor yields for the uploaded PDF
\* (truncated to the ceiling), together with the prior transcript (without
\* the new question) and the new question, in one user message.
C24_ChatEmbedsExtractedText ==
  [][\A id \in HandlerIds :
       (ChatTurnStarts(id) /\ extractPdfText(UploadedPdf).ok) =>
         LET c == ops'[id].calls[1]
             asked == handlers'[id].updatedMessages
         IN /\ c.messages.system = "chat"
            /\ c.messages.text = Truncate(extractPdfText(UploadedPdf).text)
            /\ c.messages.historyText = HistoryText(paper.chatMessages)
            /\ c.messages.question = asked[Len(asked)].text
    ]_vars
\* C25: in chatWithPaper a document text of at most 12000 characters is
\* embedded unchanged, and a longer one as exactly its first 12000 characters
\* followed by the truncation marker; the embedded document part is never
\* longer than 12000 characters plus the marker.
C25_TruncatedAtCeiling ==
  \A id \in OpIds :
    (ops[id].kind = "chat" /\ ops[id].calls # <<>>) =>
      \A k \in 1..Len(ops[id].calls) :
        LET paperText == ops[id].args.paperText
            embedded == ops[id].calls[k].messages.text
        IN /\ SLen(paperText) <= 12000 => embedded = paperText
           /\ SLen(paperText) > 12000 =>
                /\ SLen(embedded) = 12000 + SLen(TruncationMarker)
                /\ SSlice(embedded, 0, 12000) = SSlice(paperText, 0, 12000)
                /\ SSlice(embedded, 12000, SLen(embedded)) = TruncationMarker
           /\ SLen(embedded) <= 12000 + SLen(TruncationMarker)

\* a text of 12001 characters was embedded, in the primary and in the
\* fallback request
C25_Witness ==
  /\ ops[1].kind = "chat"
  /\ SLen(ops[1].args.paperText) = 12001
  /\ Len(ops[1].calls) = 2
  /\ ops[1].calls[2].sent
  /\ SLen(ops[1].calls[2].messages.text) = 12012

(***************************************************************************)
(* Properties of the key store                                             *)
(***************************************************************************)
\* C27: the key store holds at most one credential: after setApiKey(k) with
\* a non-empty k, getApiKey returns k without its surrounding whitespace and
\* hasApiKey is true exactly when that trimmed value is non-empty; after
\* setApiKey of the empty string getApiKey returns null; each set overwrites
\* the value stored before.
C27_KeyStore ==
  [][\A key \in KeyInputs :
       SetApiKey(key) =>
         /\ key # <<>> =>
              /\ getApiKey' = STrim(key)
              /\ hasApiKey' = (STrim(key) # <<>>)
         /\ key = <<>> => (getApiKey' = NullStr /\ ~hasApiKey')
    ]_vars

\* a key with surrounding whitespace has replaced the key stored before
C27_Witness ==
  /\ keySets > 0
  /\ getApiKey = Lit(<<"j">>)
  /\ hasApiKey

(***************************************************************************)
(* FormulaFeature: the handlers of the component, each running one         *)
(* analyzeImage request through the gateway                                *)
(***************************************************************************)
\* the catch and finally blocks of handleImageSelect
FormulaSettle(f, op) ==
  IF op.pc = "resolved"
  THEN [f EXCEPT !.result = <<op.result>>, !.isAnalyzing = FALSE]
  ELSE [f EXCEPT !.error = op.error.message, !.isAnalyzing = FALSE]

\* the handler of invocation id, in state f of the component, continues with
\* its request in state op
FormulaAdvance(id, h, f, op) ==
  /\ ops' = [ops EXCEPT ![id] = Forget(op)]
  /\ formula' = IF Settled(op) THEN FormulaSettle(f, op) ELSE f
  /\ handlers' = [handlers EXCEPT ![id] = IF Settled(op) THEN Finish(h, op, <<>>) ELSE h]

\* handleImageSelect(base64Image) up to the first fetch of analyzeImage: from
\* the upload bar, or from the paste handler of the window
HandleImageSelect(id, base64Image) ==
  /\ handlers[id].kind = "none"
  /\ FormulaAdvance(id,
       [NoHandler EXCEPT !.kind = "formula", !.stage = "analyzing", !.base64 = base64Image],
       [formula EXCEPT !.selectedImage = base64Image, !.result = <<>>,
                       !.error = "", !.isAnalyzing = TRUE],
       analyzeImage(base64Image, getApiKey))
  /\ UNCHANGED <<ckvars, pdfvars, viewvars, apiKey, keySets, paper, storedHistory, now>>

\* a response arrives for the request of handler id; when analyzeImage
\* settles, the handler resumes after its await
FormulaRespond(id, r) ==
  /\ handlers[id].kind = "formula"
  /\ InFlight(ops[id])
  /\ FormulaAdvance(id, handlers[id], formula, Receive(ops[id], r, getApiKey))
  /\ UNCHANGED <<ckvars, pdfvars, viewvars, apiKey, keySets, paper, storedHistory, now>>

\* handleClear(): the button is rendered over the preview while not analyzing
HandleClear ==
  /\ formula.selectedImage # NoImage
  /\ ~formula.isAnalyzing
  /\ formula' = [formula EXCEPT !.selectedImage = NoImage, !.result = <<>>, !.error = ""]
  /\ UNCHANGED <<ckvars, pdfvars, viewvars, gwvars, uivars>>

FormulaInit ==
  /\ ChunkIdle
  /\ PdfIdle
  /\ ViewerIdle
  /\ FormulaIdle
  /\ apiKey \in InitKeys
  /\ keySets = 0
  /\ ops = [id \in OpIds |-> IdleOp]
  /\ paper = InitialPaper
  /\ storedHistory = <<>>
  /\ now = 0
  /\ handlers = [id \in OpIds |-> NoHandler]

FormulaNext ==
  \/ \E id \in HandlerIds, base64Image \in Images :
       NextHandler(id) /\ HandleImageSelect(id, base64Image)
  \/ \E id \in HandlerIds, r \in FormulaResponses : FormulaRespond(id, r)
  \/ HandleClear

SpecFormula == FormulaInit /\ [][FormulaNext]_vars

\* the requests of the component that have not settled
FormulaInFlight == {id \in HandlerIds : handlers[id].kind = "formula" /\ InFlight(ops[id])}
FormulaStarted == {id \in HandlerIds : handlers[id].kind = "formula"}
LastSelected == CHOOSE id \in FormulaStarted : \A j \in FormulaStarted : j <= id

\* what the component displays for a settled request
DisplayOf(op) ==
  IF op.pc = "resolved" THEN [result |-> <<op.result>>, error |-> ""]
  ELSE [result |-> <<>>, error |-> op.error.message]

\* C29: when image B is selected before the analysis of image A has
\* finished, then once both requests have completed, in whichever order, the
\* result or error on display is the one of B, the image selected last.
C29_LastSelectionWins ==
  [][\A id \in HandlerIds :
       (/\ Returns(id)
        /\ Cardinality(FormulaStarted') >= 2
        /\ FormulaInFlight' = {})
       => LET op == ops'[LastSelected']
          IN /\ formula'.result = DisplayOf(op).result
             /\ formula'.error = DisplayOf(op).error
    ]_vars

\* C30: the analyzing flag of the feature is true in every state in which a
\* request of the feature is in flight, and false once all of them have
\* completed.
C30_AnalyzingWhileInFlight ==
  formula.isAnalyzing = (FormulaInFlight # {})

====
